---- MODULE Spec2Model ----
(***************************************************************************)
(* MapWarper <-> Allmaps bridge.                                           *)
(*                                                                         *)
(* One Source map (MapWarper) and its Target description (Allmaps) are     *)
(* modelled.  The worker (src/src/worker.ts, src/unnamed/part_004,         *)
(* src/src/resolver.ts) translates IIIF requests into WMS requests and     *)
(* serves annotation / mask endpoints; the sync pages                      *)
(* (src/unnamed/part_000, part_002, part_003) fetch both descriptions and  *)
(* compare them.                                                           *)
(*                                                                         *)
(* Units: pixel coordinates are whole pixels; geographic coordinates are   *)
(* whole multiples of 1e-5 degree.                                         *)
(***************************************************************************)
EXTENDS Integers, Sequences, FiniteSets, Bags, TLC

VARIABLES
    mapRec,      \* Source: the map's record upstream [width, height]
    gml,         \* Source: the mask document upstream (GML), or absent
    srcGcps,     \* Source: GCP list of /api/v1/maps/:id/gcps (JSON:API records)
    amFeatures,  \* Target: the annotation's features as {x, y, lon, lat}, parts possibly missing
    amMask,      \* Target: the annotation's SVG polygon points, or null
    mapCache,    \* worker: mapCache entry of the map (part_004:13)
    out,         \* the observable result of the last operation
    layer,       \* Source: the layer's member map ids upstream
    members,     \* Source: what each member map's upstream answers
    layerCache,  \* worker: layerCache entry of the layer (part_004:14)
    memberCache, \* worker: the member maps that have a mapCache entry
    mosaicCache, \* worker: the cached combined annotation of the layer
    now,         \* the clock, in hours
    agg,         \* list page: the mosaic aggregation under way
    list         \* list page: state, the maps grid and the loadMaps calls under way

\* the layer side of the state
mosaicState ==
    <<layer, members, layerCache, memberCache, mosaicCache, now, agg, list>>

vars == <<mapRec, gml, srcGcps, amFeatures, amMask, mapCache, out, mosaicState>>

\* what the operations on the single map leave alone
inputs == <<mapRec, gml, srcGcps, amFeatures, amMask, mosaicState>>

-----------------------------------------------------------------------------
(* Bounds *)

MaxCoord == 3        \* pixel coordinates and image sides range over 0..MaxCoord
MaxPts == 3          \* longest mask polygon drawn
MaxGcps == 2         \* longest GCP list drawn
MaxMaps == 21        \* most member maps of a layer

-----------------------------------------------------------------------------
(* JavaScript helpers *)

Abs(n) == IF n < 0 THEN -n ELSE n

Min(a, b) == IF a <= b THEN a ELSE b

\* Math.round(a / b) for a >= 0, b > 0: halves round up
RoundDiv(a, b) == (2 * a + b) \div (2 * b)

\* Math.floor(a / 2)
FloorHalf(a) == a \div 2

\* a value that may be null
Null == [some |-> FALSE]
Some(v) == [some |-> TRUE, val |-> v]

\* all sequences over S of length lo..hi
SeqsOf(S, lo, hi) == UNION {[1..n -> S] : n \in lo..hi}

-----------------------------------------------------------------------------
(* Coordinate Bridge: the inline conversion ([x, y]) => [x, height - y] *)

FlipYSwapped(p, height) == <<p[1], p[2] - height>>

FlipY(p, height) == <<p[1], height - p[2]>>

FlipMask(coords, height) == [i \in 1..Len(coords) |-> FlipY(coords[i], height)]

-----------------------------------------------------------------------------
(* Source Data Client (src/src/resolver.ts) *)

\* parseGmlMask: the coordinate pairs, the closing point dropped
ParseGmlMask(pairs) ==
    IF Len(pairs) > 1 /\ pairs[1] = pairs[Len(pairs)]
    THEN SubSeq(pairs, 1, Len(pairs) - 1)
    ELSE pairs

\* getMask: null when the response is not ok or holds no coordinates
GetMask(g) == IF g.some THEN Some(ParseGmlMask(g.val)) ELSE Null

BuildWmsUrlNoFlip(bbox, outputWidth, outputHeight, format, imageHeight) ==
    [bbox   |-> <<bbox.x, bbox.y, bbox.x + bbox.width, bbox.y + bbox.height>>,
     width  |-> outputWidth,
     height |-> outputHeight,
     format |-> format]

\* buildWmsUrl: BBOX = minX,minY,maxX,maxY with the vertical bounds inverted
\* when imageHeight > 0
BuildWmsUrl(bbox, outputWidth, outputHeight, format, imageHeight) ==
    LET minY == IF imageHeight > 0
                THEN imageHeight - bbox.y - bbox.height
                ELSE bbox.y
        maxY == IF imageHeight > 0
                THEN imageHeight - bbox.y
                ELSE bbox.y + bbox.height
    IN  [bbox   |-> <<bbox.x, minY, bbox.x + bbox.width, maxY>>,
         width  |-> outputWidth,
         height |-> outputHeight,
         format |-> format]

-----------------------------------------------------------------------------
(* IIIF request translator (src/unnamed/part_004) *)

ParseRegionTruncating(region, imageWidth, imageHeight) ==
    CASE region.kind = "full" ->
            [x |-> 0, y |-> 0, width |-> imageWidth, height |-> imageHeight]
      [] region.kind = "square" ->
            LET size == Min(imageWidth, imageHeight)
            IN  [x |-> FloorHalf(imageWidth - size),
                 y |-> FloorHalf(imageHeight - size),
                 width |-> size, height |-> size]
      [] region.kind = "pct" ->
            [x      |-> (imageWidth * region.x) \div 100,
             y      |-> (imageHeight * region.y) \div 100,
             width  |-> (imageWidth * region.w) \div 100,
             height |-> (imageHeight * region.h) \div 100]
      [] OTHER ->
            [x |-> region.x, y |-> region.y,
             width |-> region.w, height |-> region.h]

\* parseRegion; a region is [kind |-> "full" | "square" | "pct" | "abs", ...]
ParseRegion(region, imageWidth, imageHeight) ==
    CASE region.kind = "full" ->
            [x |-> 0, y |-> 0, width |-> imageWidth, height |-> imageHeight]
      [] region.kind = "square" ->
            LET size == Min(imageWidth, imageHeight)
            IN  [x |-> FloorHalf(imageWidth - size),
                 y |-> FloorHalf(imageHeight - size),
                 width |-> size, height |-> size]
      [] region.kind = "pct" ->
            [x      |-> RoundDiv(imageWidth * region.x, 100),
             y      |-> RoundDiv(imageHeight * region.y, 100),
             width  |-> RoundDiv(imageWidth * region.w, 100),
             height |-> RoundDiv(imageHeight * region.h, 100)]
      [] OTHER ->
            [x |-> region.x, y |-> region.y,
             width |-> region.w, height |-> region.h]

BestFitWidthFirst(maxW, maxH, regionWidth, regionHeight) ==
    [width  |-> maxW,
     height |-> RoundDiv(maxW * regionHeight, regionWidth)]

\* parseSize, !w,h (part_004:100-111): aspectRatio > targetRatio is compared
\* cross-multiplied
BestFit(maxW, maxH, regionWidth, regionHeight) ==
    IF regionWidth * maxH > maxW * regionHeight
    THEN [width  |-> maxW,
          height |-> RoundDiv(maxW * regionHeight, regionWidth)]
    ELSE [width  |-> RoundDiv(maxH * regionWidth, regionHeight),
          height |-> maxH]

ParseSizeInverseRatio(size, regionWidth, regionHeight) ==
    CASE size.kind = "max" ->
            [width |-> regionWidth, height |-> regionHeight]
      [] size.kind = "pct" ->
            [width  |-> RoundDiv(regionWidth * size.n, 100),
             height |-> RoundDiv(regionHeight * size.n, 100)]
      [] size.kind = "fit" ->
            BestFit(size.w, size.h, regionWidth, regionHeight)
      [] OTHER ->
            IF size.w # 0 /\ size.h # 0
            THEN [width |-> size.w, height |-> size.h]
            ELSE IF size.w # 0
            THEN [width  |-> size.w,
                  height |-> RoundDiv(size.w * regionWidth, regionHeight)]
            ELSE IF size.h # 0
            THEN [width  |-> RoundDiv(size.h * regionHeight, regionWidth),
                  height |-> size.h]
            ELSE [width |-> regionWidth, height |-> regionHeight]

\* parseSize; a size is [kind |-> "max" | "pct" | "fit" | "wh", up, ...]
\* where w = 0 / h = 0 stand for an absent or unusable part
ParseSize(size, regionWidth, regionHeight) ==
    CASE size.kind = "max" ->
            [width |-> regionWidth, height |-> regionHeight]
      [] size.kind = "pct" ->
            [width  |-> RoundDiv(regionWidth * size.n, 100),
             height |-> RoundDiv(regionHeight * size.n, 100)]
      [] size.kind = "fit" ->
            BestFit(size.w, size.h, regionWidth, regionHeight)
      [] OTHER ->
            IF size.w # 0 /\ size.h # 0
            THEN [width |-> size.w, height |-> size.h]
            ELSE IF size.w # 0
            THEN [width  |-> size.w,
                  height |-> RoundDiv(size.w * regionHeight, regionWidth)]
            ELSE IF size.h # 0
            THEN [width  |-> RoundDiv(size.h * regionWidth, regionHeight),
                  height |-> size.h]
            ELSE [width |-> regionWidth, height |-> regionHeight]

\* the size parameter as text: a sequence of pieces "^", "!", "pct:", ",",
\* "max", "full", a numeral or another word; the numerals and their values
NumberOf == ("0" :> 0) @@ ("50" :> 50) @@ ("100" :> 100)

\* sizeStr.split(",")
RECURSIVE SplitComma(_)
SplitComma(s) ==
    IF \A i \in 1..Len(s) : s[i] # "," THEN <<s>>
    ELSE LET k == CHOOSE i \in 1..Len(s) :
                      s[i] = "," /\ \A j \in 1..(i - 1) : s[j] # ","
         IN  <<SubSeq(s, 1, k - 1)>> \o SplitComma(SubSeq(s, k + 1, Len(s)))

\* parts[k] ? parseInt(parts[k], 10) : null, with null, NaN and 0 (all
\* falsy in the tests that follow) given as 0
IntPart(parts, k) ==
    IF k <= Len(parts) /\ parts[k] # <<>> /\ parts[k][1] \in DOMAIN NumberOf
    THEN NumberOf[parts[k][1]]
    ELSE 0

SizeStrKeepCaret(size) == size

\* const sizeStr = upscale ? size.slice(1) : size
SizeStr(size) ==
    IF Len(size) >= 1 /\ size[1] = "^" THEN Tail(size) ELSE size

\* parseSize up to its arithmetic (part_004:84-115): the text of the size
\* parameter read into [kind, up, ...]; max and full are tested before the
\* "^" is taken off, so ^max is read as a width that is not a number
SizeRecord(size) ==
    IF size = <<"max">> \/ size = <<"full">>
    THEN [kind |-> "max", up |-> FALSE]
    ELSE LET upscale == Len(size) >= 1 /\ size[1] = "^"
             sizeStr == SizeStr(size)
         IN  IF Len(sizeStr) >= 2 /\ sizeStr[1] = "pct:"
             THEN [kind |-> "pct", up |-> upscale, n |-> NumberOf[sizeStr[2]]]
             ELSE IF Len(sizeStr) >= 1 /\ sizeStr[1] = "!"
             THEN LET parts == SplitComma(Tail(sizeStr))
                  IN  [kind |-> "fit", up |-> upscale,
                       w |-> IntPart(parts, 1), h |-> IntPart(parts, 2)]
             ELSE LET parts == SplitComma(sizeStr)
                  IN  [kind |-> "wh", up |-> upscale,
                       w |-> IntPart(parts, 1), h |-> IntPart(parts, 2)]

\* parseSize on the text of the size parameter
ParseSizeText(size, regionWidth, regionHeight) ==
    ParseSize(SizeRecord(size), regionWidth, regionHeight)

\* format.toLowerCase(), on the extensions drawn
ToLowerCase(format) ==
    CASE format = "JPG" -> "jpg"
      [] format = "Jpeg" -> "jpeg"
      [] format = "PNG" -> "png"
      [] format = "TIFF" -> "tiff"
      [] format = "toString" -> "tostring"
      [] OTHER -> format

\* the own properties of the object mimeTypes
MimeTypes ==
    ("jpg" :> "image/jpeg") @@ ("jpeg" :> "image/jpeg")
    @@ ("png" :> "image/png") @@ ("gif" :> "image/gif")
    @@ ("webp" :> "image/webp") @@ ("tif" :> "image/tiff")
    @@ ("tiff" :> "image/tiff")

\* properties mimeTypes inherits from Object.prototype, each with the text
\* its value becomes in a URL parameter or a header
ObjectPrototype ==
    ("constructor" :> "function Object() { [native code] }")
    @@ ("__proto__" :> "[object Object]")
    @@ ("toString" :> "function toString() { [native code] }")

\* getMimeType: mimeTypes[format.toLowerCase()] || "image/png"; the lookup
\* finds own and inherited properties, and each value found is truthy
GetMimeType(format) ==
    LET key == ToLowerCase(format)
    IN  IF key \in DOMAIN MimeTypes THEN MimeTypes[key]
        ELSE IF key \in DOMAIN ObjectPrototype THEN ObjectPrototype[key]
        ELSE "image/png"

\* the imageHeight argument processImageRequest hands to buildWmsUrl
ImageRequestHeightArg(mapInfo) == mapInfo.height

\* the imageHeight argument streamResolver hands to buildWmsUrl
ResolverHeightArg(mapInfo) == 0

-----------------------------------------------------------------------------
(* JavaScript values that may be undefined / NaN *)

Has(g, f) == f \in DOMAIN g

\* a - b where either operand may be undefined: NaN (Null) if one is
JsSub(a, b) == IF a.some /\ b.some THEN Some(a.val - b.val) ELSE Null

\* Math.abs(a - b) > tol, false when the difference is NaN; tol = tn / td
JsExceeds(a, b, tn, td) ==
    a.some /\ b.some /\ td * Abs(a.val - b.val) > tn

\* the field f of g as a JavaScript value
Field(g, f) == IF Has(g, f) THEN Some(g[f]) ELSE Null

\* Array.prototype.sort (stable, ES2019); cmp[i, j] is the comparator's
\* result on s[i], s[j], a consistent ordering on the lists drawn
StableSort(s, cmp) ==
    LET n == Len(s)
        rank(i) == 1 + Cardinality({j \in 1..n :
                        \/ cmp[j, i] < 0
                        \/ (cmp[j, i] = 0 /\ j < i)})
    IN  [k \in 1..n |-> s[CHOOSE i \in 1..n : rank(i) = k]]

RECURSIVE Flatten(_)
Flatten(ss) == IF ss = <<>> THEN <<>> ELSE Head(ss) \o Flatten(Tail(ss))

-----------------------------------------------------------------------------
(* Sync pages: shared utilities, common.js (src/unnamed/part_003) *)

\* parseAllmapsGcps (part_003:17-45): features missing any part are dropped
ParseAllmapsGcpsCommon(features) ==
    SelectSeq(features, LAMBDA g :
        Has(g, "x") /\ Has(g, "y") /\ Has(g, "lon") /\ Has(g, "lat"))

\* parseAllmapsMask (part_003:48-74): a polygon of fewer than 3 points is null
ParseAllmapsMaskCommon(m) ==
    IF m.some /\ Len(m.val) >= 3 THEN m ELSE Null

CmpXOnly(a, b) == a.x - b.x

CmpXOnlyMw(a, b) == a.attributes.x - b.attributes.x

SortXOnly(s) ==
    StableSort(s, [i \in DOMAIN s, j \in DOMAIN s |-> CmpXOnly(s[i], s[j])])

SortXOnlyMw(s) ==
    StableSort(s, [i \in DOMAIN s, j \in DOMAIN s |-> CmpXOnlyMw(s[i], s[j])])

\* compareGcps (part_003:77-105): sorted by x, compared pairwise; pixel
\* tolerance 0.5, geographic tolerance 0.00001
CompareGcpsCommon(mwGcps, allmapsGcps) ==
    IF Len(mwGcps) # Len(allmapsGcps) THEN FALSE
    ELSE IF Len(mwGcps) = 0 THEN TRUE
    ELSE LET sortedMw == SortXOnlyMw(mwGcps)
             sortedAm == SortXOnly(allmapsGcps)
         IN  \A i \in 1..Len(sortedMw) :
                LET mw == sortedMw[i].attributes
                    am == sortedAm[i]
                IN  ~ \/ JsExceeds(Some(mw.x), Field(am, "x"), 1, 2)
                      \/ JsExceeds(Some(mw.y), Field(am, "y"), 1, 2)
                      \/ JsExceeds(Some(mw.lon), Field(am, "lon"), 1, 1)
                      \/ JsExceeds(Some(mw.lat), Field(am, "lat"), 1, 1)

\* the argument array after compareGcps has run: [...mwGcps].sort(...) and
\* [...allmapsGcps].sort(...) sort spread copies
ArrayAfterSortCommon(arr, sortedCopy) == arr

\* mwMask.map(([x, y]) => [x, imageHeight - y]): imageHeight may be undefined
MwConverted(coords, imageHeight) ==
    [i \in 1..Len(coords) |->
        <<Some(coords[i][1]), JsSub(imageHeight, Some(coords[i][2]))>>]

\* compareMasks (part_003:108-125): positional, tolerance 1 pixel
CompareMasksCommon(mwMask, allmapsMask, imageHeight) ==
    IF ~allmapsMask.some THEN ~mwMask.some \/ Len(mwMask.val) < 3
    ELSE IF ~mwMask.some \/ Len(mwMask.val) < 3 THEN FALSE
    ELSE IF Len(mwMask.val) # Len(allmapsMask.val) THEN FALSE
    ELSE LET mwConverted == MwConverted(mwMask.val, imageHeight)
         IN  \A i \in 1..Len(mwConverted) :
                LET mw == mwConverted[i]
                    am == allmapsMask.val[i]
                IN  ~ \/ JsExceeds(mw[1], Some(am[1]), 1, 1)
                      \/ JsExceeds(mw[2], Some(am[2]), 1, 1)

\* whether compareMasks reaches the conversion of the Source mask
ReachesConversion(mwMask, allmapsMask) ==
    /\ allmapsMask.some
    /\ mwMask.some /\ Len(mwMask.val) >= 3
    /\ Len(mwMask.val) = Len(allmapsMask.val)

-----------------------------------------------------------------------------
(* Sync list page: the comparator of app.js (src/unnamed/part_000) *)

\* parseAllmapsGcps (part_000:829-877): kept when x and lat are defined
ParseAllmapsGcps(features) ==
    SelectSeq(features, LAMBDA g : Has(g, "x") /\ Has(g, "lat"))

\* sortFn of compareGcps: (a.x - b.x) || (a.y - b.y); a NaN result counts as 0
CmpXThenY(a, b) ==
    IF a.x # b.x THEN a.x - b.x
    ELSE IF Has(a, "y") /\ Has(b, "y") THEN a.y - b.y
    ELSE 0

\* sortFn of compareMasks: (a[0] - b[0]) || (a[1] - b[1])
CmpPoint(a, b) == IF a[1] # b[1] THEN a[1] - b[1] ELSE a[2] - b[2]

SortXThenY(s) ==
    StableSort(s, [i \in DOMAIN s, j \in DOMAIN s |-> CmpXThenY(s[i], s[j])])

SortPoints(s) ==
    StableSort(s, [i \in DOMAIN s, j \in DOMAIN s |-> CmpPoint(s[i], s[j])])

\* ({x: g.attributes?.x ?? g.x, ...}) of compareGcps
NormalizeMw(mwGcps) == [i \in 1..Len(mwGcps) |-> mwGcps[i].attributes]

\* the sorted copy compareGcps makes of the Source list
SortedMwCopy(mwGcps) == SortXThenY(NormalizeMw(mwGcps))

\* the sorted copy compareGcps makes of the Target list
SortedAmCopy(amGcps) == SortXThenY(amGcps)

PixelDiffers(mw, am) ==
    \/ JsExceeds(Field(mw, "x"), Field(am, "x"), 1, 1)
    \/ JsExceeds(Field(mw, "y"), Field(am, "y"), 1, 1)

\* geographic tolerance 0.0001 degree = 10 units
GeoDiffers(mw, am) ==
    \/ JsExceeds(Field(mw, "lon"), Field(am, "lon"), 10, 1)
    \/ JsExceeds(Field(mw, "lat"), Field(am, "lat"), 10, 1)

\* building a message calls toFixed on each coordinate: a TypeError when
\* the coordinate is undefined
PixelMessageThrows(mw, am) ==
    ~(Has(mw, "x") /\ Has(mw, "y") /\ Has(am, "x") /\ Has(am, "y"))

GeoMessageThrows(mw, am) ==
    ~(Has(mw, "lon") /\ Has(mw, "lat") /\ Has(am, "lon") /\ Has(am, "lat"))

PairMessages(mw, am, i) ==
    (IF PixelDiffers(mw, am) THEN <<[kind |-> "gcpPixel", i |-> i]>> ELSE <<>>)
    \o (IF GeoDiffers(mw, am) THEN <<[kind |-> "gcpGeo", i |-> i]>> ELSE <<>>)

PairThrows(mw, am) ==
    \/ PixelDiffers(mw, am) /\ PixelMessageThrows(mw, am)
    \/ GeoDiffers(mw, am) /\ GeoMessageThrows(mw, am)

CompareGcpsNoCountCheck(mwGcps, amGcps) ==
    LET mwSorted == SortedMwCopy(mwGcps)
        amSorted == SortedAmCopy(amGcps)
        n == Min(Len(mwSorted), Len(amSorted))
        diffs == Flatten([i \in 1..n |-> PairMessages(mwSorted[i], amSorted[i], i)])
    IN  [threw |-> FALSE, match |-> diffs = <<>>, differences |-> diffs]

\* compareGcps (part_000:909-940)
CompareGcps(mwGcps, amGcps) ==
    IF Len(mwGcps) # Len(amGcps)
    THEN [threw |-> FALSE, match |-> FALSE,
          differences |-> <<[kind |-> "gcpCount",
                             mw |-> Len(mwGcps), am |-> Len(amGcps)]>>]
    ELSE LET mwSorted == SortedMwCopy(mwGcps)
             amSorted == SortedAmCopy(amGcps)
             n == Len(mwSorted)
             diffs == Flatten([i \in 1..n |->
                          PairMessages(mwSorted[i], amSorted[i], i)])
         IN  IF \E i \in 1..n : PairThrows(mwSorted[i], amSorted[i])
             THEN [threw |-> TRUE]
             ELSE [threw |-> FALSE, match |-> diffs = <<>>, differences |-> diffs]

CompareMasksIgnoreMissing(mwMask, allmapsMask) ==
    IF ~mwMask.some \/ ~allmapsMask.some
    THEN [match |-> TRUE, differences |-> <<>>]
    ELSE [match |-> FALSE,
          differences |-> <<[kind |-> "maskCount",
                             mw |-> Len(mwMask.val), am |-> Len(allmapsMask.val)]>>]

\* compareMasks (part_000:943-975): no conversion of either mask
CompareMasks(mwMask, allmapsMask) ==
    IF ~mwMask.some /\ ~allmapsMask.some
    THEN [match |-> TRUE, differences |-> <<>>]
    ELSE IF ~mwMask.some \/ ~allmapsMask.some
    THEN [match |-> FALSE,
          differences |-> <<[kind |-> "maskOnly",
                             side |-> IF mwMask.some THEN "MapWarper"
                                      ELSE "Allmaps"]>>]
    ELSE IF Len(mwMask.val) # Len(allmapsMask.val)
    THEN [match |-> FALSE,
          differences |-> <<[kind |-> "maskCount",
                             mw |-> Len(mwMask.val), am |-> Len(allmapsMask.val)]>>]
    ELSE LET mwSorted == SortPoints(mwMask.val)
             amSorted == SortPoints(allmapsMask.val)
             diffs == Flatten([i \in 1..Len(mwSorted) |->
                        IF \/ Abs(mwSorted[i][1] - amSorted[i][1]) > 1
                           \/ Abs(mwSorted[i][2] - amSorted[i][2]) > 1
                        THEN <<[kind |-> "maskPoint", i |-> i]>>
                        ELSE <<>>])
         IN  [match |-> diffs = <<>>, differences |-> diffs]

DetermineStatusMaskFirst(mapwarperGcps, allmapsGcps, mwMask, allmapsMask) ==
    LET hasMw == Len(mapwarperGcps) > 0
        hasAm == Len(allmapsGcps) > 0
        maskComparison == CompareMasks(mwMask, allmapsMask)
    IN  IF ~maskComparison.match
        THEN [threw |-> FALSE, type |-> "mismatch", synced |-> FALSE,
              differences |-> maskComparison.differences,
              calls |-> {"compareMasks"}]
        ELSE IF ~hasMw /\ ~hasAm
        THEN [threw |-> FALSE, type |-> "none", synced |-> FALSE, calls |-> {"compareMasks"}]
        ELSE IF hasMw /\ ~hasAm
        THEN [threw |-> FALSE, type |-> "mapwarper-only", synced |-> FALSE,
              calls |-> {"compareMasks"}]
        ELSE [threw |-> FALSE, type |-> "allmaps-only", synced |-> FALSE,
              calls |-> {"compareMasks"}]

\* determineStatus (part_000:977-1011); calls = the comparisons it made
DetermineStatus(mapwarperGcps, allmapsGcps, mwMask, allmapsMask) ==
    LET hasMw == Len(mapwarperGcps) > 0
        hasAm == Len(allmapsGcps) > 0
    IN  IF ~hasMw /\ ~hasAm
        THEN [threw |-> FALSE, type |-> "none", synced |-> FALSE, calls |-> {}]
        ELSE IF hasMw /\ ~hasAm
        THEN [threw |-> FALSE, type |-> "mapwarper-only", synced |-> FALSE,
              calls |-> {}]
        ELSE IF ~hasMw /\ hasAm
        THEN [threw |-> FALSE, type |-> "allmaps-only", synced |-> FALSE,
              calls |-> {}]
        ELSE LET gcpComparison == CompareGcps(mapwarperGcps, allmapsGcps)
                 maskComparison == CompareMasks(mwMask, allmapsMask)
             IN  IF gcpComparison.threw
                 THEN [threw |-> TRUE, calls |-> {"compareGcps"}]
                 ELSE LET allDifferences == gcpComparison.differences
                                            \o maskComparison.differences
                      IN  IF Len(allDifferences) > 0
                          THEN [threw |-> FALSE, type |-> "mismatch",
                                synced |-> FALSE,
                                differences |-> allDifferences,
                                calls |-> {"compareGcps", "compareMasks"}]
                          ELSE [threw |-> FALSE, type |-> "match",
                                synced |-> TRUE,
                                calls |-> {"compareGcps", "compareMasks"}]

-----------------------------------------------------------------------------------------------------------------------------------------------------
(* Inputs drawn *)

Regions ==
    {[kind |-> "full"], [kind |-> "square"],
     [kind |-> "pct", x |-> 0, y |-> 50, w |-> 100, h |-> 50],
     [kind |-> "pct", x |-> 0, y |-> 0, w |-> 50, h |-> 50]}
    \cup {[kind |-> "abs", x |-> 1, y |-> y, w |-> 1, h |-> h] :
             y \in 0..(MaxCoord - 1), h \in 1..2}

Sizes ==
    {[kind |-> "max", up |-> FALSE],
     [kind |-> "wh", up |-> FALSE, w |-> 2, h |-> 1],
     [kind |-> "wh", up |-> FALSE, w |-> 0, h |-> 0]}

\* default, default., default..jpg lack a format; the others carry one
QualityFormats ==
    {<<"default">>, <<"default", ".">>, <<"default", ".", ".", "jpg">>,
     <<"default", ".", "jpg">>, <<"default", ".", "bmp">>}

FetchResults == {"ok", "notfound", "error"}

\* what the request for a map's mask comes to: a response that is ok, a 404,
\* another response that is not ok, or a fetch that rejects
MaskResults == {"ok", "notfound", "error", "rejected"}

Points == {<<0, 0>>, <<MaxCoord, 1>>, <<1, MaxCoord>>}

GmlDocs == {Null} \cup {Some(c) : c \in SeqsOf(Points, 1, MaxPts)}

MapRecs == {[width |-> MaxCoord, height |-> h] : h \in 1..MaxCoord}

\* the full-image perimeter [[0, 0], [width, 0], [width, height], [0, height]]
PerimeterMask(width, height) ==
    <<<<0, 0>>, <<width, 0>>, <<width, height>>, <<0, height>>>>

\* Target masks drawn for a Source mask document g of the map m: none, the
\* Source mask as it is, the Source mask converted, the perimeter
AmMasksFor(g, m) ==
    {Null, Some(PerimeterMask(m.width, m.height))}
    \cup (IF g.some
          THEN {Some(ParseGmlMask(g.val)),
                Some(FlipMask(ParseGmlMask(g.val), m.height))}
          ELSE {})

\* GCPs drawn: geographic coordinate 20 is 0.0002 degree
GcpA == [x |-> 0, y |-> 0, lon |-> 0, lat |-> 0]
GcpB == [x |-> 0, y |-> MaxCoord - 1, lon |-> 0, lat |-> 0]
GcpNoY == [x |-> MaxCoord - 1, lon |-> 0, lat |-> 0]
GcpNoLon == [x |-> 0, y |-> 0, lat |-> 20]

SrcPool == {GcpA, GcpB}

AmPool == SrcPool \cup {GcpNoY, GcpNoLon}

\* the JSON:API records of the Source GCP list
SrcGcpLists ==
    {[i \in 1..Len(s) |-> [attributes |-> s[i]]] : s \in SeqsOf(SrcPool, 0, MaxGcps)}

AmFeatureLists == SeqsOf(AmPool, 0, MaxGcps)

\* the mask documents and Target masks of the comparison runs
CmpMapRec == [width |-> MaxCoord, height |-> MaxCoord]

CmpMask == <<<<0, 0>>, <<MaxCoord, 1>>, <<1, MaxCoord>>>>

CmpGmlDocs == {Null, Some(CmpMask)}

\* a polygon started at its second point
StartAtSecond(M) == Tail(M) \o <<Head(M)>>

CmpAmMasks ==
    {Null, Some(CmpMask), Some(FlipMask(CmpMask, CmpMapRec.height)),
     Some(StartAtSecond(FlipMask(CmpMask, CmpMapRec.height))),
     Some(FlipMask(PerimeterMask(CmpMapRec.width, CmpMapRec.height),
                   CmpMapRec.height))}

Idle == [op |-> "idle"]

-----
(* Worker operations *)

\* getMapInfo (part_004:41-48): the cached record, else one upstream fetch
\* whose result r is cached when it succeeds
CacheAfterGetMapInfo(r) ==
    IF mapCache.some THEN mapCache
    ELSE IF r = "ok" THEN Some(mapRec) ELSE Null

GetMapInfoFails(r) == ~mapCache.some /\ r # "ok"

ErrorCode(r) == IF r = "notfound" THEN 404 ELSE 500

\* const [quality, format] = qualityFormat.split("."): a qualityFormat is a
\* sequence of pieces, each "." or a word without a dot (no two words
\* adjacent); the result is the list of the pieces between the dots
RECURSIVE SplitDot(_)
SplitDot(s) ==
    IF \A i \in 1..Len(s) : s[i] # "." THEN <<s>>
    ELSE LET k == CHOOSE i \in 1..Len(s) :
                      s[i] = "." /\ \A j \in 1..(i - 1) : s[j] # "."
         IN  <<SubSeq(s, 1, k - 1)>> \o SplitDot(SubSeq(s, k + 1, Len(s)))

\* the second element of the destructured array, undefined when there is none
FormatOf(qualityFormat) ==
    LET parts == SplitDot(qualityFormat)
    IN  IF Len(parts) >= 2 THEN Some(parts[2]) ELSE Null

\* the text of a piece list without a dot: empty or its one word
Text(piece) == IF piece = <<>> THEN "" ELSE piece[1]

NoFormatOnlyUndefined(format) == ~format.some

\* if (!format): undefined or the empty string
NoFormat(format) == ~format.some \/ Text(format.val) = ""

\* error.message of MapNotFoundError / LayerNotFoundError (types.ts:100-113)
NotFoundMessage(kind, id) == [text |-> "not found", what |-> kind, id |-> id]

InternalError == [text |-> "Internal server error"]

\* the identifier of the map and of the layer requested
MapIdent == "m"
LayerIdent == "l"

\* the body handleError answers with for a failed getMap (worker.ts:26-32)
ErrorBody(r, id) ==
    IF r = "notfound" THEN NotFoundMessage("Map", id) ELSE InternalError

\* the upstream requests getMapInfo makes: none on a cache hit
MapRequests == IF mapCache.some THEN <<>> ELSE <<"map">>

\* GET .../:region/:size/:rotation/:qualityFormat -> processImageRequest, as
\* routed by server: "worker" (worker.ts:307-336), "worker0"
\* (worker.ts:727-756), "node" (index.ts:80-108)
ImageRoute(server) ==
    /\ out = Idle
    /\ \E qualityFormat \in QualityFormats :
        LET format == FormatOf(qualityFormat)
        IN  IF NoFormat(format)
            THEN /\ out' = [op |-> "image", server |-> server,
                            qualityFormat |-> qualityFormat,
                            code |-> 400, issued |-> FALSE,
                            calls |-> {}, upstream |-> <<>>,
                            failures |-> {},
                            body |-> [text |-> "Invalid format"]]
                 /\ UNCHANGED <<inputs, mapCache>>
            ELSE \E r \in FetchResults :
                 IF GetMapInfoFails(r)
                 THEN /\ out' = [op |-> "image", server |-> server,
                                 qualityFormat |-> qualityFormat,
                                 code |-> ErrorCode(r), issued |-> FALSE,
                                 calls |-> {"processImageRequest"},
                                 upstream |-> MapRequests,
                                 failures |-> {r},
                                 body |-> ErrorBody(r, MapIdent)]
                      /\ UNCHANGED <<inputs, mapCache>>
                 ELSE \E region \in Regions, size \in Sizes, wmsOk \in BOOLEAN :
                      LET mapInfo == CacheAfterGetMapInfo(r).val
                          reg == ParseRegion(region, mapInfo.width, mapInfo.height)
                          sz  == ParseSize(size, reg.width, reg.height)
                          hArg == ImageRequestHeightArg(mapInfo)
                          mime == GetMimeType(Text(format.val))
                      IN  /\ mapCache' = CacheAfterGetMapInfo(r)
                          /\ out' = [op |-> "image", server |-> server,
                                     qualityFormat |-> qualityFormat,
                                     code |-> IF wmsOk THEN 200 ELSE 500,
                                     issued |-> TRUE,
                                     calls |-> {"processImageRequest"},
                                     upstream |-> MapRequests \o <<"wms">>,
                                     failures |-> IF wmsOk THEN {}
                                                  ELSE {"error"},
                                     body |-> IF wmsOk THEN [text |-> "image"]
                                              ELSE InternalError,
                                     asked |-> [region |-> region,
                                                size |-> size],
                                     region |-> reg,
                                     imageHeight |-> hArg,
                                     wms |-> BuildWmsUrl(reg, sz.width,
                                                         sz.height, mime, hArg),
                                     contentType |-> mime]
                          /\ UNCHANGED inputs

ProcessImageRequest == ImageRoute("worker")

\* streamResolver (resolver.ts:28-65): the full image, fetched uncached
StreamResolver ==
    /\ out = Idle
    /\ \E r \in FetchResults, wmsOk \in BOOLEAN :
        IF r # "ok"
        THEN /\ out' = [op |-> "resolve", code |-> ErrorCode(r), issued |-> FALSE]
             /\ UNCHANGED <<inputs, mapCache>>
        ELSE LET mapInfo == mapRec
                 reg == [x |-> 0, y |-> 0,
                         width |-> mapInfo.width, height |-> mapInfo.height]
                 hArg == ResolverHeightArg(mapInfo)
             IN  /\ out' = [op |-> "resolve",
                            code |-> IF wmsOk THEN 200 ELSE 500,
                            issued |-> TRUE,
                            region |-> reg,
                            imageHeight |-> hArg,
                            wms |-> BuildWmsUrl(reg, mapInfo.width, mapInfo.height,
                                                "image/png", hArg)]
                 /\ UNCHANGED <<inputs, mapCache>>

------------------------------------------------------------------------\* getGCPs of the Source Data Client: the GCPs of the records, none on 404
GetGCPs(records, r) ==
    IF r = "notfound" THEN <<>> ELSE NormalizeMw(records)

\* getMask as called by the worker: maskOk is whether the response was ok
FetchedMask(maskOk) == IF maskOk THEN GetMask(gml) ELSE Null

\* gcps.map(gcp => ({resource: [gcp.x, gcp.y], geo: [gcp.lon, gcp.lat]}))
AnnotationGcps(gcps) ==
    [i \in 1..Len(gcps) |->
        [resource |-> <<gcps[i].x, gcps[i].y>>,
         geo |-> <<gcps[i].lon, gcps[i].lat>>]]

ResourceMaskAnyMask(maskCoords, mapInfo) ==
    IF maskCoords.some
    THEN FlipMask(maskCoords.val, mapInfo.height)
    ELSE PerimeterMask(mapInfo.width, mapInfo.height)

\* resourceMask of the annotation endpoint (worker.ts:589-591)
ResourceMask(maskCoords, mapInfo) ==
    IF maskCoords.some /\ Len(maskCoords.val) >= 3
    THEN FlipMask(maskCoords.val, mapInfo.height)
    ELSE PerimeterMask(mapInfo.width, mapInfo.height)

IiifMaskResponseNonEmpty(maskCoords, mapInfo) ==
    IF ~maskCoords.some \/ Len(maskCoords.val) = 0
    THEN [code |-> 404]
    ELSE [code |-> 200, coords |-> FlipMask(maskCoords.val, mapInfo.height)]

\* body of GET .../iiif/mask.json once both fetches have resolved
IiifMaskResponse(maskCoords, mapInfo) ==
    IF ~maskCoords.some \/ Len(maskCoords.val) < 3
    THEN [code |-> 404]
    ELSE [code |-> 200, coords |-> FlipMask(maskCoords.val, mapInfo.height)]

\* body of GET .../mask.json (the proxy)
MaskProxyResponse(maskCoords) ==
    IF ~maskCoords.some \/ Len(maskCoords.val) = 0
    THEN [code |-> 404]
    ELSE [code |-> 200, coords |-> maskCoords.val]

\* GET /mapwarper/maps/:identifier/annotation.json (worker.ts:556-607)
AnnotationEndpoint ==
    /\ out = Idle
    /\ \E r \in FetchResults, gr \in FetchResults, mr \in MaskResults :
        LET rejections == (IF GetMapInfoFails(r) THEN {r} ELSE {})
                          \cup (IF gr = "error" THEN {"error"} ELSE {})
                          \cup (IF mr = "rejected" THEN {"error"} ELSE {})
            upstream == MapRequests \o <<"gcps", "mask">>
        IN  /\ mapCache' = CacheAfterGetMapInfo(r)
            /\ UNCHANGED inputs
            /\ IF rejections # {}
               THEN \* Promise.all rejects with whichever failure comes first
                    \E f \in rejections :
                       out' = [op |-> "annotation", code |-> ErrorCode(f),
                               gr |-> gr, mr |-> mr,
                               upstream |-> upstream,
                               failures |-> rejections,
                               body |-> ErrorBody(f, MapIdent)]
               ELSE LET mapInfo == CacheAfterGetMapInfo(r).val
                        gcps == GetGCPs(srcGcps, gr)
                        maskCoords == FetchedMask(mr = "ok")
                    IN  IF Len(gcps) = 0
                        THEN out' = [op |-> "annotation", code |-> 404,
                                     gr |-> gr, mr |-> mr,
                                     upstream |-> upstream,
                                     failures |-> {},
                                     body |-> [text |-> "No GCPs found for this map"],
                                     sourceGcps |-> gcps,
                                     maskCoords |-> maskCoords]
                        ELSE out' = [op |-> "annotation", code |-> 200,
                                     gr |-> gr, mr |-> mr,
                                     upstream |-> upstream,
                                     failures |-> {},
                                     body |-> [text |-> "annotation"],
                                     sourceGcps |-> gcps,
                                     width |-> mapInfo.width,
                                     height |-> mapInfo.height,
                                     gcps |-> AnnotationGcps(gcps),
                                     maskCoords |-> maskCoords,
                                     resourceMask |->
                                         ResourceMask(maskCoords, mapInfo)]

\* GET /mapwarper/maps/:identifier/iiif/mask.json (worker.ts:209-229)
IiifMaskEndpoint ==
    /\ out = Idle
    /\ \E r \in FetchResults, mr \in MaskResults :
        LET rejections == (IF GetMapInfoFails(r) THEN {r} ELSE {})
                          \cup (IF mr = "rejected" THEN {"error"} ELSE {})
            upstream == <<"mask">> \o MapRequests
        IN  /\ mapCache' = CacheAfterGetMapInfo(r)
            /\ UNCHANGED inputs
            /\ IF rejections # {}
               THEN \E f \in rejections :
                       out' = [op |-> "iiifMask", code |-> ErrorCode(f),
                               mr |-> mr,
                               upstream |-> upstream,
                               failures |-> rejections,
                               body |-> ErrorBody(f, MapIdent)]
               ELSE LET mapInfo == CacheAfterGetMapInfo(r).val
                        maskCoords == FetchedMask(mr = "ok")
                        resp == IiifMaskResponse(maskCoords, mapInfo)
                    IN  out' = [op |-> "iiifMask", code |-> resp.code,
                                mr |-> mr,
                                upstream |-> upstream,
                                failures |-> {},
                                body |-> IF resp.code = 200
                                         THEN [text |-> "coords"]
                                         ELSE [text |-> "No mask found for this map"],
                                maskCoords |-> maskCoords,
                                height |-> mapInfo.height,
                                coords |-> IF resp.code = 200 THEN resp.coords
                                           ELSE <<>>]

\* GET /mapwarper/maps/:identifier/mask.json (worker.ts:610-628); unknown is
\* whether the identifier is of no map upstream, where the mask's URL
\* answers 404 as well
MaskProxyEndpoint ==
    /\ out = Idle
    /\ \E mr \in MaskResults, unknown \in BOOLEAN :
        /\ unknown => mr = "notfound"
        /\ IF mr = "rejected"
           THEN out' = [op |-> "maskProxy", code |-> 500,
                        mr |-> mr, unknown |-> unknown,
                        upstream |-> <<"mask">>,
                        failures |-> {"error"},
                        body |-> [text |-> "Failed to fetch mask"]]
           ELSE LET maskCoords == FetchedMask(mr = "ok")
                    resp == MaskProxyResponse(maskCoords)
                IN  out' = [op |-> "maskProxy", code |-> resp.code,
                            mr |-> mr, unknown |-> unknown,
                            upstream |-> <<"mask">>,
                            failures |-> IF unknown THEN {"notfound"} ELSE {},
                            body |-> IF resp.code = 200
                                     THEN [text |-> "coords"]
                                     ELSE [text |-> "No mask found for this map"],
                            maskCoords |-> maskCoords,
                            coords |-> IF resp.code = 200 THEN resp.coords
                                       ELSE <<>>]
        /\ UNCHANGED <<inputs, mapCache>>

-----------------------------------------------------------------------------
(* Sync editor page (src/unnamed/part_002), mode 'allmaps', for a map whose
   info.json the worker serves; V1 is the page reading /mask.json, V2 the
   page reading /iiif/mask.json *)

UpdateSyncStatusMaskBlind(mwGcpCount, allmapsGcpCount, gcpsMatch, masksMatch, hasMwMask) ==
    IF mwGcpCount = 0 THEN "No MW GCPs to sync"
    ELSE IF allmapsGcpCount = 0
    THEN (IF hasMwMask THEN "GCPs & Clip need to be added"
          ELSE "GCPs need to be added")
    ELSE IF ~gcpsMatch THEN "GCPs need update"
    ELSE "All synced"

\* updateSyncStatus
UpdateSyncStatus(mwGcpCount, allmapsGcpCount, gcpsMatch, masksMatch, hasMwMask) ==
    IF mwGcpCount = 0 THEN "No MW GCPs to sync"
    ELSE IF allmapsGcpCount = 0
    THEN (IF hasMwMask THEN "GCPs & Clip need to be added"
          ELSE "GCPs need to be added")
    ELSE IF gcpsMatch /\ masksMatch THEN "All synced"
    ELSE IF ~gcpsMatch /\ ~masksMatch /\ hasMwMask THEN "GCPs & Clip need update"
    ELSE IF ~gcpsMatch THEN "GCPs need update"
    ELSE IF ~masksMatch /\ hasMwMask THEN "Clip needs update"
    ELSE "All synced"

\* maskCoords || [[0, 0], [width, 0], [width, height], [0, height]]
EffectiveMwMask(maskCoords, iiifInfo) ==
    IF maskCoords.some THEN maskCoords
    ELSE Some(PerimeterMask(iiifInfo.width, iiifInfo.height))

\* the mask fetch of fetchSyncData: .then(d => d?.coords || null)
CoordsOrNull(resp) == IF resp.code = 200 THEN Some(resp.coords) ELSE Null

\* clip text of updateAllmapsControls, first page: `${x},${height - y}`
ClipExportV1(maskCoords, height, masksMatch) ==
    IF maskCoords.some /\ Len(maskCoords.val) >= 3 /\ ~masksMatch
    THEN Some(FlipMask(maskCoords.val, height))
    ELSE Null

\* clip text of updateAllmapsControls, second page: `${x},${y}`
ClipExportV2(maskCoords, masksMatch) ==
    IF maskCoords.some /\ Len(maskCoords.val) >= 3 /\ ~masksMatch
    THEN maskCoords
    ELSE Null

\* what fetchSyncData and updateStatusAndControls leave on the page
SyncData(page, mwGcps, annotated, maskCoords, iiifInfo, heightArg) ==
    LET allmapsGcps == IF annotated THEN ParseAllmapsGcpsCommon(amFeatures)
                       ELSE <<>>
        allmapsMask == IF annotated THEN ParseAllmapsMaskCommon(amMask)
                       ELSE Null
        gcpsMatch == CompareGcpsCommon(mwGcps, allmapsGcps)
        hasMwMask == maskCoords.some /\ Len(maskCoords.val) >= 3
        effectiveMwMask == EffectiveMwMask(maskCoords, iiifInfo)
        masksMatch == CompareMasksCommon(effectiveMwMask, allmapsMask, heightArg)
        sorted == Len(mwGcps) = Len(allmapsGcps) /\ Len(mwGcps) > 0
    IN  [op |-> page,
         given |-> [mwGcps |-> mwGcps, allmapsGcps |-> allmapsGcps],
         mwGcps |-> IF sorted
                    THEN ArrayAfterSortCommon(mwGcps,
                             SortXOnlyMw(mwGcps))
                    ELSE mwGcps,
         allmapsGcps |-> IF sorted
                         THEN ArrayAfterSortCommon(allmapsGcps,
                                  SortXOnly(allmapsGcps))
                         ELSE allmapsGcps,
         maskCoords |-> maskCoords,
         allmapsMask |-> allmapsMask,
         gcpsMatch |-> gcpsMatch,
         masksMatch |-> masksMatch,
         hasMwMask |-> hasMwMask,
         compared |-> IF ReachesConversion(effectiveMwMask, allmapsMask)
                      THEN Some(MwConverted(effectiveMwMask.val, heightArg))
                      ELSE Null,
         status |-> UpdateSyncStatus(Len(mwGcps), Len(allmapsGcps),
                                     gcpsMatch, masksMatch, hasMwMask)]

\* gcpsResponse.data || []
GcpsResponseData(gr) == IF gr = "ok" THEN srcGcps ELSE <<>>

\* refreshStatus of the first page (part_002:28-127, 175-204); a failed
\* annotation fetch counts as no annotation
RefreshStatusV1 ==
    /\ out = Idle
    /\ \E gr \in FetchResults, ar \in FetchResults, maskOk \in BOOLEAN :
        /\ mapCache' = CacheAfterGetMapInfo("ok")
        /\ UNCHANGED inputs
        /\ IF gr = "error"
           THEN out' = [op |-> "editorError", status |-> "Error checking status",
                        fetched |-> [gcps |-> gr, am |-> ar]]
           ELSE LET iiifInfo == CacheAfterGetMapInfo("ok").val
                    maskCoords == CoordsOrNull(
                                      MaskProxyResponse(FetchedMask(maskOk)))
                    data == SyncData("editorV1", GcpsResponseData(gr),
                                     ar = "ok", maskCoords, iiifInfo,
                                     Some(iiifInfo.height))
                IN  out' = data @@ [clip |-> ClipExportV1(maskCoords,
                                                 iiifInfo.height,
                                                 data.masksMatch),
                                    fetched |-> [gcps |-> gr, am |-> ar,
                                                 maskOk |-> maskOk]]

\* refreshStatus of the second page (part_002:293-391, 439-468): compareMasks
\* is called without an image height
RefreshStatusV2 ==
    /\ out = Idle
    /\ \E gr \in FetchResults, ar \in FetchResults, maskOk \in BOOLEAN :
        /\ mapCache' = CacheAfterGetMapInfo("ok")
        /\ UNCHANGED inputs
        /\ IF gr = "error" \/ ar = "error"
           THEN out' = [op |-> "editorError", status |-> "Error checking status",
                        fetched |-> [gcps |-> gr, am |-> ar]]
           ELSE LET iiifInfo == CacheAfterGetMapInfo("ok").val
                    maskCoords == CoordsOrNull(
                                      IiifMaskResponse(FetchedMask(maskOk),
                                                       iiifInfo))
                    data == SyncData("editorV2", GcpsResponseData(gr),
                                     ar = "ok", maskCoords, iiifInfo, Null)
                IN  out' = data @@ [clip |-> ClipExportV2(maskCoords,
                                                          data.masksMatch),
                                    fetched |-> [gcps |-> gr, am |-> ar,
                                                 maskOk |-> maskOk]]

-----
(* Sync list page (src/unnamed/part_000) *)

SortedInPlace(arr, sortedCopy) == sortedCopy

\* the argument arrays after compareGcps / compareMasks have run: both sort
\* spread copies ([...mwGcps], [...amGcps], [...mwMask], [...amMask])
ArrayAfterSort(arr, sortedCopy) == arr

CmpMwRecord(a, b) == CmpXThenY(a.attributes, b.attributes)

SortMwRecords(s) ==
    StableSort(s, [i \in DOMAIN s, j \in DOMAIN s |-> CmpMwRecord(s[i], s[j])])

FailedToFetchGCPsOn404(gr) == gr # "ok"

\* fetchMapWarperGCPs throws 'Failed to fetch GCPs': a response that is not
\* ok and not a 404
FailedToFetchGCPs(gr) == gr = "error"

\* fetchMapWarperGCPs: 404 gives { data: [] }
FetchMapWarperGCPs(gr) == IF gr = "ok" THEN srcGcps ELSE <<>>

\* the inline status: error text, synced banner or sync buttons
Rendered(status) == IF status.synced THEN "synced" ELSE "actions"

\* fetchStatus (part_000:741-822)
FetchStatus ==
    /\ out = Idle
    /\ \E r \in FetchResults, gr \in FetchResults, ar \in FetchResults,
          mr \in FetchResults :
        /\ mapCache' = CacheAfterGetMapInfo(r)
        /\ UNCHANGED inputs
        /\ IF FailedToFetchGCPs(gr) \/ ar = "error"
           THEN out' = [op |-> "status", compared |-> FALSE, threw |-> FALSE,
                        rendered |-> "error",
                        fetched |-> [gcps |-> gr, am |-> ar]]
           ELSE LET mapwarperGcps == FetchMapWarperGCPs(gr)
                    maskCoords == CoordsOrNull(
                                      MaskProxyResponse(FetchedMask(mr = "ok")))
                    allmapsGcps == IF ar = "ok" THEN ParseAllmapsGcps(amFeatures)
                                   ELSE <<>>
                    allmapsMask == IF ar = "ok" THEN amMask ELSE Null
                    status == DetermineStatus(mapwarperGcps, allmapsGcps,
                                              maskCoords, allmapsMask)
                    ran == "compareGcps" \in status.calls
                    ranMasks == /\ "compareMasks" \in status.calls
                                /\ maskCoords.some /\ allmapsMask.some
                                /\ Len(maskCoords.val) = Len(allmapsMask.val)
                    args == [mapwarperGcps |->
                                 IF ran
                                 THEN ArrayAfterSort(mapwarperGcps,
                                          SortMwRecords(mapwarperGcps))
                                 ELSE mapwarperGcps,
                             allmapsGcps |->
                                 IF ran
                                 THEN ArrayAfterSort(allmapsGcps,
                                          SortXThenY(allmapsGcps))
                                 ELSE allmapsGcps,
                             maskCoords |->
                                 IF ranMasks
                                 THEN Some(ArrayAfterSort(maskCoords.val,
                                               SortPoints(maskCoords.val)))
                                 ELSE maskCoords,
                             allmapsMask |->
                                 IF ranMasks
                                 THEN Some(ArrayAfterSort(allmapsMask.val,
                                               SortPoints(allmapsMask.val)))
                                 ELSE allmapsMask]
                IN  IF status.threw
                    THEN out' = [op |-> "status", compared |-> TRUE,
                                 threw |-> TRUE, rendered |-> "error",
                                 given |-> [mapwarperGcps |-> mapwarperGcps,
                                            allmapsGcps |-> allmapsGcps,
                                            maskCoords |-> maskCoords,
                                            allmapsMask |-> allmapsMask],
                                 fetched |-> [gcps |-> gr, mask |-> mr,
                                              am |-> ar],
                                 args |-> args]
                    ELSE out' = [op |-> "status", compared |-> TRUE,
                                 threw |-> FALSE, rendered |-> Rendered(status),
                                 given |-> [mapwarperGcps |-> mapwarperGcps,
                                            allmapsGcps |-> allmapsGcps,
                                            maskCoords |-> maskCoords,
                                            allmapsMask |-> allmapsMask],
                                 fetched |-> [gcps |-> gr, mask |-> mr,
                                              am |-> ar],
                                 args |-> args,
                                 status |-> status]

-----------------------------------------------------------------------------
(* List page: the mosaic aggregator generateMosaicViewerUrl
   (src/unnamed/part_001); V1 is the function of lines 805-887, V2 the one of
   lines 1820-1875.  A member map's upstream is a record of what its
   requests answer: map (the record, asked by the worker) "ok" | "notfound" |
   "error", gcps "ok" | "empty" | "error" | "rejected", info and am "ok" |
   "error" | "rejected", mask "ok" | "none" | "rejected" ("error" is a
   response that is not ok, "rejected" a fetch that rejects). *)

ChunkSize == 20

AllOk ==
    [map |-> "ok", gcps |-> "ok", info |-> "ok", mask |-> "ok", am |-> "ok"]
NoMask ==
    [map |-> "ok", gcps |-> "ok", info |-> "ok", mask |-> "none", am |-> "error"]
NoGcps ==
    [map |-> "ok", gcps |-> "empty", info |-> "ok", mask |-> "none", am |-> "error"]
HttpError ==
    [map |-> "ok", gcps |-> "error", info |-> "ok", mask |-> "none", am |-> "ok"]
Rejected ==
    [map |-> "ok", gcps |-> "rejected", info |-> "ok", mask |-> "ok", am |-> "rejected"]

MemberPool == {AllOk, NoMask, NoGcps, HttpError, Rejected}

\* the member maps past the third answer every request
MemberStates ==
    {[id \in 1..MaxMaps |-> IF id <= 3 THEN f[id] ELSE AllOk] :
        f \in [1..3 -> MemberPool]}

Layers == {[i \in 1..n |-> i] : n \in {0, 3, MaxMaps}}

\* the layers drawn where the layer changes upstream
SourceLayers == {<<1>>, <<1, 2>>, <<2>>}

\* the bag of the upstreams of the maps ids
UpstreamsOf(ids) ==
    LET conds == {members[ids[i]] : i \in DOMAIN ids}
    IN  [c \in conds |-> Cardinality({i \in DOMAIN ids : members[ids[i]] = c})]

ChunkUnbounded(mapIds, i) == SubSeq(mapIds, i + 1, Len(mapIds))

\* mapIds.slice(i, i + chunkSize)
Chunk(mapIds, i) == SubSeq(mapIds, i + 1, Min(i + ChunkSize, Len(mapIds)))

\* fetchMapData of V1 (part_001:814-853): "reject" when one of the three
\* fetches rejects, null when gcps or info is not ok or there is no GCP
FetchMapDataV1(cond) ==
    IF "rejected" \in {cond.gcps, cond.info, cond.mask} THEN "reject"
    ELSE IF cond.gcps = "error" \/ cond.info # "ok" THEN "null"
    ELSE IF cond.gcps = "empty" THEN "null"
    ELSE "map"

\* fetchMwGeoreferencingData of common.js: throws when a fetch of the chain
\* fails, else the map's data
FetchMwGeoreferencingData(cond) ==
    IF \/ cond.gcps \in {"error", "rejected"}
       \/ cond.info # "ok"
       \/ cond.mask = "rejected"
    THEN "throw"
    ELSE IF cond.gcps = "empty" THEN "empty"
    ELSE "data"

\* fetchMapData of V2 (part_001:1830-1849): every failure gives null
FetchMapDataV2(source, cond) ==
    IF source = "allmaps"
    THEN (IF cond.am = "ok" THEN "map" ELSE "null")
    ELSE (IF FetchMwGeoreferencingData(cond) = "data" THEN "map" ELSE "null")

FetchMapData(version, source, cond) ==
    IF version = "V1" THEN FetchMapDataV1(cond)
    ELSE FetchMapDataV2(source, cond)

\* chunkResults.filter(m => m) / if (maps) push(...maps): the maps of the
\* chunk, in the chunk's order
ChunkMaps(version, source, chunk) ==
    LET kept == SelectSeq(chunk, LAMBDA id :
                    FetchMapData(version, source, members[id]) = "map")
    IN  [k \in 1..Len(kept) |-> [type |-> "GeoreferencedMap", id |-> kept[k]]]

\* the text left in urlSpan once the loop has ended
ViewerText(source, georeferencedMaps) ==
    IF Len(georeferencedMaps) = 0
    THEN (IF source = "allmaps" THEN "No annotations" ELSE "No GCPs")
    ELSE "Open"

MosaicResult(a, text, maps) ==
    [op |-> "mosaicUrl", version |-> a.version, source |-> a.source,
     mapIds |-> a.mapIds, started |-> a.started, text |-> text, maps |-> maps]

\* the loop from its head at index i to its next await or its end
LoopFrom(a, i) ==
    IF i < Len(a.mapIds)
    THEN LET chunk == Chunk(a.mapIds, i)
         IN  /\ agg' = [a EXCEPT !.pc = "await", !.i = i,
                                 !.inFlight = UpstreamsOf(chunk),
                                 !.started = a.started \o chunk]
             /\ out' = out
    ELSE /\ agg' = Idle
         /\ out' = MosaicResult(a, ViewerText(a.source, a.georeferencedMaps),
                                a.georeferencedMaps)

\* generateMosaicViewerUrl up to its first await
GenerateMosaicViewerUrl ==
    /\ out = Idle
    /\ agg = Idle
    /\ \E call \in {[version |-> "V1", source |-> "mw"],
                     [version |-> "V2", source |-> "mw"],
                     [version |-> "V2", source |-> "allmaps"]} :
        LoopFrom([pc |-> "start", version |-> call.version,
                  source |-> call.source, mapIds |-> layer, i |-> 0,
                  inFlight |-> EmptyBag, started |-> <<>>,
                  georeferencedMaps |-> <<>>], 0)
    /\ UNCHANGED <<mapRec, gml, srcGcps, amFeatures, amMask, mapCache,
                   layer, members, layerCache, memberCache, mosaicCache, now, list>>

\* one fetchMapData of the chunk settles; a rejection rejects Promise.all
\* and ends the function in its catch, the other fetches still under way
FetchSettles ==
    /\ agg # Idle
    /\ \E cond \in BagToSet(agg.inFlight) :
        LET left == agg.inFlight (-) SetToBag({cond})
        IN  IF agg.pc = "await"
               /\ FetchMapData(agg.version, agg.source, cond) = "reject"
            THEN /\ out' = MosaicResult(agg, "Error", <<>>)
                 /\ agg' = IF left = EmptyBag THEN Idle
                            ELSE [agg EXCEPT !.pc = "aborted", !.inFlight = left]
            ELSE /\ out' = out
                 /\ agg' = IF agg.pc = "aborted" /\ left = EmptyBag THEN Idle
                            ELSE [agg EXCEPT !.inFlight = left]
    /\ UNCHANGED <<mapRec, gml, srcGcps, amFeatures, amMask, mapCache,
                   layer, members, layerCache, memberCache, mosaicCache, now, list>>

\* Promise.all of the chunk resolves: its maps are pushed and the loop goes on
ChunkResolves ==
    /\ agg # Idle
    /\ agg.pc = "await"
    /\ agg.inFlight = EmptyBag
    /\ LET chunk == Chunk(agg.mapIds, agg.i)
           a == [agg EXCEPT !.georeferencedMaps =
                     agg.georeferencedMaps
                         \o ChunkMaps(agg.version, agg.source, chunk)]
       IN  LoopFrom(a, agg.i + ChunkSize)
    /\ UNCHANGED <<mapRec, gml, srcGcps, amFeatures, amMask, mapCache,
                   layer, members, layerCache, memberCache, mosaicCache, now, list>>

-----------------------------------------------------------------------------
(* Worker: info.json and the mosaic manifest *)

\* GET /mapwarper/maps/:identifier/iiif/info.json (worker.ts:80-111)
InfoJsonEndpoint ==
    /\ out = Idle
    /\ \E r \in FetchResults :
        IF GetMapInfoFails(r)
        THEN /\ out' = [op |-> "info", code |-> ErrorCode(r),
                        upstream |-> MapRequests, failures |-> {r},
                        body |-> ErrorBody(r, MapIdent)]
             /\ UNCHANGED <<inputs, mapCache>>
        ELSE LET mapInfo == CacheAfterGetMapInfo(r).val
             IN  /\ mapCache' = CacheAfterGetMapInfo(r)
                 /\ out' = [op |-> "info", code |-> 200,
                            upstream |-> MapRequests, failures |-> {},
                            body |-> [text |-> "info"],
                            fetched |-> ~mapCache.some,
                            info |-> mapInfo]
                 /\ UNCHANGED inputs

\* GET /mapwarper/maps/:identifier/iiif/manifest.json (worker.ts:114-206)
ManifestEndpoint ==
    /\ out = Idle
    /\ \E r \in FetchResults :
        /\ mapCache' = CacheAfterGetMapInfo(r)
        /\ UNCHANGED inputs
        /\ IF GetMapInfoFails(r)
           THEN out' = [op |-> "manifest", code |-> ErrorCode(r),
                        upstream |-> MapRequests, failures |-> {r},
                        body |-> ErrorBody(r, MapIdent)]
           ELSE out' = [op |-> "manifest", code |-> 200,
                        upstream |-> MapRequests, failures |-> {},
                        body |-> [text |-> "manifest"],
                        info |-> CacheAfterGetMapInfo(r).val]

\* the image route of the earlier worker and of the Node server
OldImageRequest == ImageRoute("worker0")

NodeImageRequest == ImageRoute("node")

\* getLayerInfo (part_004:201-208): the cached record unless skipCache
LayerCacheHit(skipCache) == ~skipCache /\ layerCache.some

GetLayerInfoFails(lr, skipCache) == ~LayerCacheHit(skipCache) /\ lr # "ok"

\* layerCache once getLayerInfo has returned or thrown
CacheAfterGetLayerInfo(lr, skipCache) ==
    IF LayerCacheHit(skipCache) THEN layerCache
    ELSE IF lr = "ok" THEN Some(layer) ELSE layerCache

LayerErrorBody(lr, id) ==
    IF lr = "notfound" THEN NotFoundMessage("Layer", id) ELSE InternalError

CanvasesFromZero(mapInfos) ==
    [k \in 1..Len(mapInfos) |-> [canvas |-> k - 1, mapId |-> mapInfos[k]]]

\* mapInfos.map((mapInfo, index) => ...): the canvas .../canvas/${index + 1}
\* whose image service is that of mapInfo.id; k is index + 1
Canvases(mapInfos) ==
    [k \in 1..Len(mapInfos) |-> [canvas |-> k, mapId |-> mapInfos[k]]]

\* GET /mapwarper/mosaic/:identifier/manifest.json (worker.ts:232-305):
\* getLayerInfo, then getMapInfoForIIIF of every member under Promise.all,
\* which rejects with the failure of one of the members that fail
MosaicManifest ==
    /\ out = Idle
    /\ \E lr \in FetchResults :
        IF GetLayerInfoFails(lr, FALSE)
        THEN /\ out' = [op |-> "mosaicManifest", code |-> ErrorCode(lr),
                        upstream |-> <<"layer">>, memberRequests |-> <<>>,
                        failures |-> {lr},
                        body |-> LayerErrorBody(lr, LayerIdent)]
             /\ UNCHANGED <<mapRec, gml, srcGcps, amFeatures, amMask, mapCache,
                            layer, members, layerCache, memberCache,
                            mosaicCache, now, agg, list>>
        ELSE LET layerInfo == CacheAfterGetLayerInfo(lr, FALSE).val
                 asked == SelectSeq(layerInfo, LAMBDA id : id \notin memberCache)
                 failing == {asked[k] : k \in {j \in DOMAIN asked :
                                 members[asked[j]].map # "ok"}}
                 upstream == IF LayerCacheHit(FALSE) THEN <<>> ELSE <<"layer">>
             IN  /\ layerCache' = CacheAfterGetLayerInfo(lr, FALSE)
                 /\ memberCache' = memberCache
                        \cup {asked[k] : k \in {j \in DOMAIN asked :
                                  members[asked[j]].map = "ok"}}
                 /\ IF failing = {}
                    THEN out' = [op |-> "mosaicManifest", code |-> 200,
                                 upstream |-> upstream,
                                 memberRequests |-> asked,
                                 failures |-> {},
                                 body |-> [text |-> "manifest"],
                                 fetched |-> ~LayerCacheHit(FALSE),
                                 mapInfos |-> layerInfo,
                                 items |-> Canvases(layerInfo)]
                    ELSE \E id \in failing :
                           out' = [op |-> "mosaicManifest",
                                   code |-> ErrorCode(members[id].map),
                                   upstream |-> upstream,
                                   memberRequests |-> asked,
                                   failedId |-> id,
                                   failures |-> {members[i].map : i \in failing},
                                   body |-> ErrorBody(members[id].map, id)]
                 /\ UNCHANGED <<mapRec, gml, srcGcps, amFeatures, amMask,
                                mapCache, layer, members, mosaicCache, now, agg, list>>

\* a CacheEntry lives 24 hours; the clock counts hours
TTL == 24

\* the hours the clock runs
MaxClock == 25
MaxLoads == 3        \* most loadMaps calls of a run
MaxPage == 2         \* pages of the maps list

\* a CacheEntry is read while now - created < TTL
FreshForever(entry, t) == entry.some

Fresh(entry, t) == entry.some /\ t - entry.val.created < TTL

\* cache hit: within TTL and refresh not requested
CacheHit(refresh) == ~refresh /\ Fresh(mosaicCache, now)

\* one worker: metadata + GCPs + mask of one map; a GeoreferencedMap, or a
\* skip when the map has zero GCPs or a fetch of its chain failed
WorkerResult(cond) ==
    IF cond.map = "ok" /\ cond.gcps = "ok" /\ cond.mask \in {"ok", "none"}
    THEN "map" ELSE "skip"

\* the maps of the combined annotation (their order is not kept)
CombinedMaps(mapIds) ==
    {mapIds[k] : k \in {j \in DOMAIN mapIds :
                          WorkerResult(members[mapIds[j]]) = "map"}}

\* the combined annotation, or the empty-result condition
CombinedPayload(mapIds) ==
    [empty |-> CombinedMaps(mapIds) = {}, maps |-> CombinedMaps(mapIds)]

\* GET /mapwarper/mosaic/:identifier/annotation.json[?refresh]
MosaicAnnotation ==
    /\ out = Idle
    /\ \E refresh \in BOOLEAN, lr \in FetchResults :
        IF CacheHit(refresh)
        THEN /\ out' = [op |-> "mosaicAnnotation", refresh |-> refresh,
                        at |-> now, before |-> mosaicCache,
                        upstream |-> <<>>, memberRequests |-> <<>>,
                        failed |-> "none",
                        code |-> IF mosaicCache.val.payload.empty
                                 THEN 404 ELSE 200,
                        payload |-> mosaicCache.val.payload]
             /\ UNCHANGED mosaicCache
        ELSE IF lr # "ok"
        THEN /\ out' = [op |-> "mosaicAnnotation", refresh |-> refresh,
                        at |-> now, before |-> mosaicCache,
                        upstream |-> <<"layer">>, memberRequests |-> <<>>,
                        failed |-> lr,
                        code |-> ErrorCode(lr),
                        body |-> LayerErrorBody(lr, LayerIdent)]
             /\ UNCHANGED mosaicCache
        ELSE /\ out' = [op |-> "mosaicAnnotation", refresh |-> refresh,
                        at |-> now, before |-> mosaicCache,
                        upstream |-> <<"layer">>, memberRequests |-> layer,
                        failed |-> "none",
                        code |-> IF CombinedPayload(layer).empty
                                 THEN 404 ELSE 200,
                        payload |-> CombinedPayload(layer)]
             /\ mosaicCache' = Some([payload |-> CombinedPayload(layer),
                                     created |-> now])
    /\ UNCHANGED <<mapRec, gml, srcGcps, amFeatures, amMask, mapCache,
                   layer, members, layerCache, memberCache, now, agg, list>>

\* an hour passes
Tick ==
    /\ out = Idle
    /\ now < MaxClock
    /\ now' = now + 1
    /\ UNCHANGED <<mapRec, gml, srcGcps, amFeatures, amMask, mapCache, out,
                   layer, members, layerCache, memberCache, mosaicCache, agg, list>>

\* the member maps as the cache's requests find them
CacheMemberStates ==
    {[id \in 1..MaxMaps |-> IF id = 1 THEN c1 ELSE IF id = 2 THEN c2 ELSE AllOk] :
        c1 \in {AllOk, NoGcps}, c2 \in {NoMask, HttpError}}

\* a member map whose record is unknown upstream, and one whose record
\* request fails otherwise
MapUnknown ==
    [map |-> "notfound", gcps |-> "empty", info |-> "error", mask |-> "none", am |-> "error"]

MapUnreachable ==
    [map |-> "error", gcps |-> "error", info |-> "error", mask |-> "none", am |-> "error"]

\* the member maps as the worker's handlers find them
HandlerMemberStates ==
    {[id \in 1..MaxMaps |-> IF id = 1 THEN c1 ELSE IF id = 2 THEN c2 ELSE AllOk] :
        c1 \in {AllOk, MapUnknown}, c2 \in {AllOk, MapUnreachable}}

\* the layers of the handler runs: the same member maps in either order
HandlerLayers == {<<1, 2>>, <<2, 1>>}

\* a member map gains or loses its georeferencing upstream
UpstreamMemberChange ==
    /\ out = Idle
    /\ members' \in CacheMemberStates \ {members}
    /\ UNCHANGED <<mapRec, gml, srcGcps, amFeatures, amMask, mapCache, out,
                   layer, layerCache, memberCache, mosaicCache, now, agg, list>>

\* the size parameters parseSize is applied to, each also with a leading ^
SizeStrings ==
    {<<"max">>, <<"full">>, <<"pct:", "50">>, <<"!", "100", ",", "50">>,
     <<"100", ",", "50">>, <<"100", ",">>, <<",", "50">>,
     <<>>, <<",">>, <<"abc">>, <<"abc", ",", "abc">>,
     <<"0", ",", "0">>, <<"0", ",">>, <<"abc", ",", "50">>}

\* parseSize applied to a size parameter and to the same with a leading ^
ParseSizeTextCall ==
    /\ out = Idle
    /\ \E size \in SizeStrings,
          regionWidth \in {1, 2, 3, 100, 200},
          regionHeight \in {1, 2, 3, 100, 200} :
        out' = [op |-> "parseSizeText",
                size |-> size,
                regionWidth |-> regionWidth,
                regionHeight |-> regionHeight,
                result |-> ParseSizeText(size, regionWidth, regionHeight),
                caretResult |-> ParseSizeText(<<"^">> \o size,
                                              regionWidth, regionHeight)]
    /\ UNCHANGED <<inputs, mapCache>>

\* the format extensions getMimeType is applied to
Extensions ==
    {"jpg", "jpeg", "JPG", "Jpeg", "png", "PNG", "gif", "webp", "tif", "tiff",
     "TIFF", "bmp", "toString", "constructor", "__proto__"}

\* getMimeType applied to an extension
GetMimeTypeCall ==
    /\ out = Idle
    /\ \E format \in Extensions :
        out' = [op |-> "getMimeType", format |-> format,
                result |-> GetMimeType(format)]
    /\ UNCHANGED <<inputs, mapCache>>

\* the widths and heights of the boxes and regions parseSize is applied to
FitDims == {1, 2, 3, 25, 50, 100, 200}

\* parseSize applied to !w,h and a region
ParseSizeCall ==
    /\ out = Idle
    /\ \E w \in FitDims, h \in FitDims,
          regionWidth \in FitDims, regionHeight \in FitDims :
        out' = [op |-> "parseSize",
                size |-> [kind |-> "fit", up |-> FALSE, w |-> w, h |-> h],
                regionWidth |-> regionWidth,
                regionHeight |-> regionHeight,
                result |-> ParseSize([kind |-> "fit", up |-> FALSE,
                                      w |-> w, h |-> h],
                                     regionWidth, regionHeight)]
    /\ UNCHANGED <<inputs, mapCache>>

\* the map's record is edited upstream
UpstreamMapChange ==
    /\ out = Idle
    /\ mapRec' \in MapRecs \ {mapRec}
    /\ UNCHANGED <<gml, srcGcps, amFeatures, amMask, mapCache, out, mosaicState>>

\* a member map joins or leaves the layer upstream
UpstreamLayerChange ==
    /\ out = Idle
    /\ layer' \in SourceLayers \ {layer}
    /\ UNCHANGED <<mapRec, gml, srcGcps, amFeatures, amMask, mapCache, out,
                   members, layerCache, memberCache, mosaicCache, now, agg, list>>

-----
(* List page: loading the maps grid, app.js (src/unnamed/part_000).  list is
   the page: state (mapsPage, mapsSearchQuery, mapsRectifiedOnly, mapsData),
   mapsGrid (what elements.mapsGrid shows), inFlight (the loadMaps calls
   awaiting their response, each with the parameters fetchMapWarperMaps read
   when it was called) and arrived (the responses in their order of arrival). *)

\* the page before its first load
ListStart ==
    [state |-> [mapsPage |-> 1, mapsSearchQuery |-> "",
                mapsRectifiedOnly |-> FALSE, mapsData |-> Null],
     mapsGrid |-> Null, inFlight |-> {}, issued |-> 0, arrived |-> <<>>]

\* text queries of the search box; neither is a map id
SearchQueries == {"", "atlas"}

\* the parameters fetchMapWarperMaps sends for the state st: page, query and
\* show_warped, read before its first await
RequestParams(st) ==
    [page |-> st.mapsPage, query |-> st.mapsSearchQuery,
     rectified |-> st.mapsRectifiedOnly]

\* loadMaps up to its await, run on the page state st
LoadMaps(st) ==
    /\ list.issued < MaxLoads
    /\ list' = [list EXCEPT
                   !.state = st,
                   !.issued = list.issued + 1,
                   !.inFlight = list.inFlight
                       \cup {[n |-> list.issued + 1,
                              params |-> RequestParams(st)]}]
    /\ UNCHANGED <<mapRec, gml, srcGcps, amFeatures, amMask, mapCache, out,
                   layer, members, layerCache, memberCache, mosaicCache, now,
                   agg>>

\* goToPage(page, 'maps')
GoToPage ==
    \E page \in 1..MaxPage :
        LoadMaps([list.state EXCEPT !.mapsPage = page])

\* performSearch on the maps tab
PerformSearch ==
    \E query \in SearchQueries :
        LoadMaps([list.state EXCEPT !.mapsSearchQuery = query, !.mapsPage = 1])

\* the change listener of the rectified-only checkbox
RectifiedOnlyChange ==
    LoadMaps([list.state EXCEPT
                 !.mapsRectifiedOnly = ~list.state.mapsRectifiedOnly,
                 !.mapsPage = 1])

\* the response of one loadMaps call arrives: state.mapsData = data and
\* renderMaps(data), whatever has been asked since
LoadMapsResolves ==
    \E r \in list.inFlight :
        /\ list' = [list EXCEPT
                       !.state.mapsData = Some(r.params),
                       !.mapsGrid = Some(r.params),
                       !.inFlight = list.inFlight \ {r},
                       !.arrived = Append(list.arrived,
                                          [n |-> r.n, ok |-> TRUE])]
        /\ UNCHANGED <<mapRec, gml, srcGcps, amFeatures, amMask, mapCache, out,
                       layer, members, layerCache, memberCache, mosaicCache,
                       now, agg>>

\* the fetch of one loadMaps call fails: the catch shows the error
LoadMapsRejects ==
    \E r \in list.inFlight :
        /\ list' = [list EXCEPT
                       !.mapsGrid = Some([error |-> "Error loading maps"]),
                       !.inFlight = list.inFlight \ {r},
                       !.arrived = Append(list.arrived,
                                          [n |-> r.n, ok |-> FALSE])]
        /\ UNCHANGED <<mapRec, gml, srcGcps, amFeatures, amMask, mapCache, out,
                       layer, members, layerCache, memberCache, mosaicCache,
                       now, agg>>

-----------------------------------------------------------------------------
\* no layer is served and no aggregation is under way
MosaicQuiet ==
    /\ layer = <<>>
    /\ members = <<>>
    /\ layerCache = Null
    /\ memberCache = {}
    /\ mosaicCache = Null
    /\ now = 0
    /\ agg = Idle
    /\ list = ListStart

\* the response is delivered to the caller; the next request may start
Deliver ==
    /\ out # Idle
    /\ out' = Idle
    /\ UNCHANGED <<inputs, mapCache>>

-----------------------------------------------------------------------------
(* Specification of the worker *)

Init ==
    /\ mapRec \in MapRecs
    /\ gml \in GmlDocs
    /\ srcGcps \in {<<>>, <<[attributes |-> GcpA]>>}
    /\ amFeatures = NormalizeMw(srcGcps)
    /\ amMask \in AmMasksFor(gml, mapRec)
    /\ mapCache = Null
    /\ out = Idle
    /\ MosaicQuiet

Next ==
    \/ ProcessImageRequest
    \/ StreamResolver
    \/ AnnotationEndpoint
    \/ IiifMaskEndpoint
    \/ MaskProxyEndpoint
    \/ RefreshStatusV1
    \/ RefreshStatusV2
    \/ Deliver

Spec == Init /\ [][Next]_vars

-----------------------------------------------------------------------------
(* Specification of the sync pages: one map, GCP lists and masks drawn *)

InitCmp ==
    /\ mapRec = CmpMapRec
    /\ gml \in CmpGmlDocs
    /\ srcGcps \in SrcGcpLists
    /\ amFeatures \in AmFeatureLists
    /\ amMask \in CmpAmMasks
    /\ mapCache = Null
    /\ out = Idle
    /\ MosaicQuiet

NextCmp ==
    \/ FetchStatus
    \/ RefreshStatusV1
    \/ RefreshStatusV2
    \/ Deliver

SpecCmp == InitCmp /\ [][NextCmp]_vars

-----------------------------------------------------------------------------
(* Specification of the mosaic aggregator of the list page *)

InitAgg ==
    /\ mapRec = CmpMapRec
    /\ gml = Null
    /\ srcGcps = <<>>
    /\ amFeatures = <<>>
    /\ amMask = Null
    /\ mapCache = Null
    /\ out = Idle
    /\ layer \in Layers
    /\ members \in MemberStates
    /\ layerCache = Null
    /\ memberCache = {}
    /\ mosaicCache = Null
    /\ now = 0
    /\ agg = Idle
    /\ list = ListStart

NextAgg ==
    \/ GenerateMosaicViewerUrl
    \/ FetchSettles
    \/ ChunkResolves
    \/ Deliver

SpecAgg == InitAgg /\ [][NextAgg]_vars

-----------------------------------------------------------------------------
(* Specification of the Source Data Client's caches: the map and the layer
   change upstream while info.json and the mosaic manifest are requested
   again and again *)

InitSource ==
    /\ mapRec \in MapRecs
    /\ gml = Null
    /\ srcGcps = <<>>
    /\ amFeatures = <<>>
    /\ amMask = Null
    /\ mapCache = Null
    /\ out = Idle
    /\ layer \in SourceLayers
    /\ members = [id \in 1..MaxMaps |-> AllOk]
    /\ layerCache = Null
    /\ memberCache = {}
    /\ mosaicCache = Null
    /\ now = 0
    /\ agg = Idle
    /\ list = ListStart

NextSource ==
    \/ InfoJsonEndpoint
    \/ MosaicManifest
    \/ UpstreamMapChange
    \/ UpstreamLayerChange
    \/ Deliver

SpecSource == InitSource /\ [][NextSource]_vars

\* requests keep arriving and responses are delivered
SpecSourceFair ==
    /\ SpecSource
    /\ SF_vars(InfoJsonEndpoint)
    /\ SF_vars(MosaicManifest)
    /\ WF_vars(Deliver)

-----------------------------------------------------------------------------
(* Specification of the mosaic annotation cache: requests with and without
   refresh while the clock runs and the layer and its maps change upstream *)

InitCache ==
    /\ mapRec = [width |-> MaxCoord, height |-> MaxCoord]
    /\ gml = Null
    /\ srcGcps = <<>>
    /\ amFeatures = <<>>
    /\ amMask = Null
    /\ mapCache = Null
    /\ out = Idle
    /\ layer \in SourceLayers
    /\ members \in CacheMemberStates
    /\ layerCache = Null
    /\ memberCache = {}
    /\ mosaicCache = Null
    /\ now = 0
    /\ agg = Idle
    /\ list = ListStart

NextCache ==
    \/ MosaicAnnotation
    \/ Tick
    \/ UpstreamMemberChange
    \/ UpstreamLayerChange
    \/ Deliver

SpecCache == InitCache /\ [][NextCache]_vars

-----------------------------------------------------------------------------
(* Specification of the worker's and the Node server's handlers with every
   way their upstream requests fail *)

InitHandlers ==
    /\ mapRec = [width |-> MaxCoord, height |-> 2]
    /\ gml \in CmpGmlDocs
    /\ srcGcps \in {<<>>, <<[attributes |-> GcpA]>>}
    /\ amFeatures = <<>>
    /\ amMask = Null
    /\ mapCache = Null
    /\ out = Idle
    /\ layer \in HandlerLayers
    /\ members \in HandlerMemberStates
    /\ layerCache = Null
    /\ memberCache = {}
    /\ mosaicCache = Null
    /\ now = 0
    /\ agg = Idle
    /\ list = ListStart

NextHandlers ==
    \/ InfoJsonEndpoint
    \/ ManifestEndpoint
    \/ AnnotationEndpoint
    \/ IiifMaskEndpoint
    \/ MaskProxyEndpoint
    \/ MosaicManifest
    \/ ProcessImageRequest
    \/ OldImageRequest
    \/ NodeImageRequest
    \/ Deliver

SpecHandlers == InitHandlers /\ [][NextHandlers]_vars

-----------------------------------------------------------------------------
(* Specification of the IIIF request translator: the parsers applied to
   drawn parameters, and image requests for a small and a 200x100 image *)

InitSize ==
    /\ mapRec \in {[width |-> MaxCoord, height |-> MaxCoord],
                    [width |-> 200, height |-> 100]}
    /\ gml = Null
    /\ srcGcps = <<>>
    /\ amFeatures = <<>>
    /\ amMask = Null
    /\ mapCache = Null
    /\ out = Idle
    /\ MosaicQuiet

NextSize ==
    \/ GetMimeTypeCall
    \/ ParseSizeCall
    \/ ParseSizeTextCall
    \/ ProcessImageRequest
    \/ Deliver

SpecSize == InitSize /\ [][NextSize]_vars

-----------------------------------------------------------------------------
(* C1: every WMS request carries the region inverted exactly once: with an
   imageHeight argument H > 0 the BBOX is (x, H - y - h, x + w, H - y), with
   0 it is (x, y, x + w, y + h); processImageRequest passes the map's real
   height, streamResolver passes 0. *)
C1_BBoxInvertedOnce ==
    (out.op \in {"image", "resolve"} /\ out.issued) =>
        LET b == out.region
            H == out.imageHeight
        IN  /\ (out.op = "image" => H = mapRec.height)
            /\ (out.op = "resolve" => H = 0)
            /\ (H > 0 => out.wms.bbox =
                    <<b.x, H - b.y - b.height, b.x + b.width, H - b.y>>)
            /\ (H = 0 => out.wms.bbox =
                    <<b.x, b.y, b.x + b.width, b.y + b.height>>)

C1_Witness ==
    /\ out.op = "image" /\ out.issued
    /\ out.region.y > 0
    /\ out.wms.bbox[2] # out.region.y
    /\ out.wms.bbox[4] = mapRec.height - out.region.y

(* C2: the inversion is applied exactly once on every path from a Source
   mask to a Target output: the annotation endpoint and iiif/mask.json emit
   each Source mask point (x, y) as (x, H - y), GCP resource coordinates are
   emitted unchanged, and a consumer of a mask (editor clip export, mask
   comparison) ends with each Source point inverted once, neither twice nor
   not at all. *)
C2_InversionOncePerPath ==
    LET H == mapRec.height
        Once(M) == [i \in 1..Len(M) |-> <<M[i][1], H - M[i][2]>>]
        OnceJs(M) == [i \in 1..Len(M) |-> <<Some(M[i][1]), Some(H - M[i][2])>>]
    IN  /\ (out.op = "annotation" /\ out.code = 200) =>
               /\ (out.maskCoords.some /\ Len(out.maskCoords.val) >= 3) =>
                      out.resourceMask = Once(out.maskCoords.val)
               /\ Len(out.gcps) = Len(srcGcps)
               /\ \A i \in 1..Len(out.gcps) :
                      out.gcps[i].resource =
                          <<srcGcps[i].attributes.x, srcGcps[i].attributes.y>>
        /\ (out.op = "iiifMask" /\ out.code = 200) =>
               out.coords = Once(out.maskCoords.val)
        /\ (out.op \in {"editorV1", "editorV2"} /\ out.hasMwMask) =>
               LET M == ParseGmlMask(gml.val)
               IN  /\ out.clip.some => out.clip.val = Once(M)
                   /\ out.compared.some => out.compared.val = OnceJs(M)

(* C3: the Coordinate Bridge is self-inverse: converting a converted mask
   again with the same height gives the mask back, and x is never changed. *)
C3_BridgeSelfInverse ==
    /\ (out.op = "iiifMask" /\ out.code = 200) =>
           /\ FlipMask(out.coords, out.height) = out.maskCoords.val
           /\ \A i \in 1..Len(out.coords) :
                  out.coords[i][1] = out.maskCoords.val[i][1]
    /\ (out.op = "editorV1" /\ out.compared.some) =>
           LET eff == IF out.maskCoords.some THEN out.maskCoords.val
                      ELSE PerimeterMask(mapRec.width, mapRec.height)
               c == out.compared.val
           IN  /\ \A i \in 1..Len(c) : c[i][1].some /\ c[i][2].some
               /\ [i \in 1..Len(c) |->
                      FlipY(<<c[i][1].val, c[i][2].val>>, mapRec.height)] = eff
               /\ \A i \in 1..Len(c) : c[i][1].val = eff[i][1]

C3_Witness ==
    /\ out.op = "iiifMask" /\ out.code = 200
    /\ out.coords # out.maskCoords.val
    /\ \E i \in 1..Len(out.coords) : out.maskCoords.val[i][2] > out.height

(* C4: with one or both GCP collections empty the status is decided by GCP
   presence alone (none, mapwarper-only, allmaps-only); no GCP or mask
   comparison is made and the masks do not affect it. *)
C4_PresenceOnly ==
    (/\ out.op = "status" /\ out.compared
     /\ (Len(out.given.mapwarperGcps) = 0 \/ Len(out.given.allmapsGcps) = 0)) =>
        /\ ~out.threw
        /\ out.status.calls = {}
        /\ ~out.status.synced
        /\ out.status.type =
               (IF Len(out.given.mapwarperGcps) > 0 THEN "mapwarper-only"
                ELSE IF Len(out.given.allmapsGcps) > 0 THEN "allmaps-only"
                ELSE "none")

C4_Witness ==
    /\ out.op = "status" /\ out.compared
    /\ Len(out.given.mapwarperGcps) = 0
    /\ Len(out.given.allmapsGcps) > 0
    /\ out.given.maskCoords.some /\ ~out.given.allmapsMask.some
    /\ out.status.type = "allmaps-only"

(* C5: a GCP collection compared against any permutation of itself,
   ties in x included, reports no GCP discrepancy. *)
C5_PermutationMatches ==
    LET IsPerm(s, t) ==
            /\ Len(s) = Len(t)
            /\ \E f \in Permutations(1..Len(s)) :
                   \A i \in 1..Len(s) : t[i] = s[f[i]]
    IN  /\ (/\ out.op = "status" /\ out.compared
            /\ IsPerm(NormalizeMw(out.given.mapwarperGcps),
                      out.given.allmapsGcps)) =>
               /\ ~out.threw
               /\ out.status.type = "mismatch" =>
                      \A i \in 1..Len(out.status.differences) :
                          out.status.differences[i].kind
                              \notin {"gcpCount", "gcpPixel", "gcpGeo"}
        /\ (/\ out.op \in {"editorV1", "editorV2"}
            /\ IsPerm(NormalizeMw(out.mwGcps), out.allmapsGcps)) =>
               out.gcpsMatch

(* C6: with both GCP collections non-empty and of different sizes the
   status is mismatch, its first message is the count discrepancy, and no
   per-pair GCP message follows. *)
C6_CountShortCircuits ==
    (/\ out.op = "status" /\ out.compared
     /\ Len(out.given.mapwarperGcps) > 0 /\ Len(out.given.allmapsGcps) > 0
     /\ Len(out.given.mapwarperGcps) # Len(out.given.allmapsGcps)) =>
        /\ ~out.threw
        /\ out.status.type = "mismatch"
        /\ out.status.differences[1] =
               [kind |-> "gcpCount", mw |-> Len(out.given.mapwarperGcps),
                am |-> Len(out.given.allmapsGcps)]
        /\ \A i \in 2..Len(out.status.differences) :
               out.status.differences[i].kind
                   \notin {"gcpCount", "gcpPixel", "gcpGeo"}

C6_Witness ==
    /\ out.op = "status" /\ out.compared
    /\ Len(out.given.mapwarperGcps) = 1
    /\ Len(out.given.allmapsGcps) > 1
    /\ \E i \in 1..Len(out.given.allmapsGcps) :
           out.given.allmapsGcps[i] = GcpNoY
    /\ out.status.type = "mismatch"

(* C7: with GCPs on both sides determineStatus returns match (synced) exactly
   when the GCP and mask comparisons give no discrepancy, otherwise mismatch
   (not synced) with the GCP discrepancies followed by the mask
   discrepancies; only a mismatch carries a differences list. *)
C7_MatchIffNoDiscrepancy ==
    (out.op = "status" /\ out.compared) =>
        /\ ~out.threw
        /\ ("differences" \in DOMAIN out.status) <=> (out.status.type = "mismatch")
        /\ (Len(out.given.mapwarperGcps) > 0 /\ Len(out.given.allmapsGcps) > 0) =>
               LET g == CompareGcps(out.given.mapwarperGcps,
                                    out.given.allmapsGcps)
                   m == CompareMasks(out.given.maskCoords,
                                     out.given.allmapsMask)
                   all == g.differences \o m.differences
               IN  /\ out.status.type \in {"match", "mismatch"}
                   /\ (out.status.type = "match") <=> (all = <<>>)
                   /\ out.status.synced <=> (out.status.type = "match")
                   /\ out.status.type = "mismatch" =>
                          out.status.differences = all

(* C8 as stated: with equal GCPs on both sides and exactly one of the two
   masks absent, a mask discrepancy is reported and the status is not a
   match, on the list page and on the editor pages alike. *)
C8_OneMaskAlwaysMismatch ==
    /\ (/\ out.op = "status" /\ out.compared
        /\ Len(out.given.mapwarperGcps) > 0
        /\ out.given.allmapsGcps = NormalizeMw(out.given.mapwarperGcps)
        /\ out.given.maskCoords.some # out.given.allmapsMask.some) =>
           /\ ~out.threw
           /\ out.status.type = "mismatch"
    /\ (/\ out.op \in {"editorV1", "editorV2"}
        /\ Len(out.mwGcps) > 0
        /\ out.allmapsGcps = NormalizeMw(out.mwGcps)
        /\ out.maskCoords.some # out.allmapsMask.some) =>
           /\ ~out.masksMatch
           /\ out.status # "All synced"

(* C8 amended: on the list page equal GCPs and exactly one mask give a
   mismatch whose only message is that the mask exists on one side; on the
   editor pages a Source mask without a Target mask gives "Clip needs
   update", while a Target mask without a Source mask is shown as synced
   (the missing Source mask never counts against the map). *)
C8_OneMaskPolicy ==
    /\ (/\ out.op = "status" /\ out.compared
        /\ Len(out.given.mapwarperGcps) > 0
        /\ out.given.allmapsGcps = NormalizeMw(out.given.mapwarperGcps)
        /\ out.given.maskCoords.some # out.given.allmapsMask.some) =>
           /\ ~out.threw
           /\ out.status.type = "mismatch"
           /\ out.status.differences =
                  <<[kind |-> "maskOnly",
                     side |-> IF out.given.maskCoords.some THEN "MapWarper"
                              ELSE "Allmaps"]>>
    /\ (/\ out.op \in {"editorV1", "editorV2"}
        /\ Len(out.mwGcps) > 0
        /\ out.allmapsGcps = NormalizeMw(out.mwGcps)) =>
           /\ (out.hasMwMask /\ ~out.allmapsMask.some) =>
                  (~out.masksMatch /\ out.status = "Clip needs update")
           /\ (~out.maskCoords.some /\ out.allmapsMask.some) =>
                  out.status = "All synced"

C8_Witness ==
    /\ out.op = "status" /\ out.compared
    /\ Len(out.given.mapwarperGcps) > 0
    /\ out.given.allmapsGcps = NormalizeMw(out.given.mapwarperGcps)
    /\ ~out.given.maskCoords.some /\ out.given.allmapsMask.some
    /\ out.status.type = "mismatch"

(* C9: the comparator never throws: whatever GCP collections the parsers
   produce and whatever the masks, determineStatus returns a status. *)
C9_NeverThrows ==
    (out.op = "status" /\ out.compared) => ~out.threw

(* C10: the comparator is pure: the arrays handed to it are the same after
   the call as before (sorting is done on copies), and calling it again on
   them returns the same status and the same discrepancy list. *)
C10_ComparatorPure ==
    /\ (out.op = "status" /\ out.compared) =>
           /\ out.args = out.given
           /\ ~out.threw =>
                  out.status = DetermineStatus(out.args.mapwarperGcps,
                                               out.args.allmapsGcps,
                                               out.args.maskCoords,
                                               out.args.allmapsMask)
    /\ (out.op \in {"editorV1", "editorV2"}) =>
           /\ out.mwGcps = out.given.mwGcps
           /\ out.allmapsGcps = out.given.allmapsGcps
           /\ out.gcpsMatch = CompareGcpsCommon(out.mwGcps, out.allmapsGcps)

C10_Witness ==
    /\ out.op = "status" /\ out.compared /\ ~out.threw
    /\ out.status.type = "mismatch"
    /\ Len(out.given.mapwarperGcps) = 2
    /\ out.given.mapwarperGcps[1].attributes.y
           > out.given.mapwarperGcps[2].attributes.y
    /\ Len(out.given.allmapsGcps) = 2
    /\ out.given.maskCoords.some /\ out.given.allmapsMask.some

(* C11: a member map whose fetch chain fails, or that has no GCP, is left
   out and nothing else happens: the aggregation over the Source ends with
   exactly the maps whose gcps and info requests answered ok with at least
   one GCP and whose mask request answered (a mask or none), and with the
   empty-result text "No GCPs", never an error, when there is no such map. *)
C11_FailuresSwallowed ==
    (out.op = "mosaicUrl" /\ out.source = "mw") =>
        LET good == SelectSeq(out.mapIds, LAMBDA id :
                        /\ members[id].gcps = "ok"
                        /\ members[id].info = "ok"
                        /\ members[id].mask \in {"ok", "none"})
        IN  IF good = <<>>
            THEN out.text = "No GCPs" /\ out.maps = <<>>
            ELSE /\ out.text = "Open"
                 /\ Len(out.maps) = Len(good)
                 /\ {out.maps[k].id : k \in DOMAIN out.maps}
                        = {good[k] : k \in DOMAIN good}

\* the per-map fetches under way
InFlightCount == IF agg = Idle THEN 0 ELSE BagCardinality(agg.inFlight)

\* every id of mapIds was handed to fetchMapData exactly once
StartedOnce(r) ==
    /\ Len(r.started) = Len(r.mapIds)
    /\ \A k \in DOMAIN r.mapIds :
           Cardinality({j \in DOMAIN r.started : r.started[j] = r.mapIds[k]}) = 1

(* C12 as stated: at every moment at most 5 per-map fetches are under way,
   and a finished aggregation has handed every member map id to a fetch
   exactly once. *)
C12_AtMostFiveInFlight ==
    /\ InFlightCount <= 5
    /\ (out.op = "mosaicUrl" /\ out.text # "Error") => StartedOnce(out)

(* C12 amended: at every moment at most 20 per-map fetches (one chunk) are
   under way, a chunk is started only when the chunk before it has settled,
   and a finished aggregation has handed every member map id to a fetch
   exactly once. *)
C12_AtMostOneChunkInFlight ==
    /\ InFlightCount <= ChunkSize
    /\ (agg # Idle /\ agg.pc = "await") =>
           /\ InFlightCount <= Len(agg.started) - agg.i
           /\ Len(agg.started) = Min(agg.i + ChunkSize, Len(agg.mapIds))
    /\ (out.op = "mosaicUrl" /\ out.text # "Error") => StartedOnce(out)

C12_Witness ==
    /\ agg # Idle /\ agg.pc = "await"
    /\ agg.i = ChunkSize
    /\ InFlightCount >= 1
    /\ Len(agg.started) = Len(agg.mapIds)
    /\ Len(agg.georeferencedMaps) >= ChunkSize - 3

(* C14: cached Source records are not served forever: once the map's
   upstream record differs from the cached one, a later info.json request
   is answered from a new upstream fetch with the changed record, and
   likewise the layer's record for a later manifest request. *)
C14_NotCachedForever ==
    /\ (mapCache.some /\ mapCache.val # mapRec)
           ~> (out.op = "info" /\ out.code = 200 /\ out.fetched
               /\ out.info = mapRec)
    /\ (layerCache.some /\ layerCache.val # layer)
           ~> (out.op = "mosaicManifest" /\ out.code = 200 /\ out.fetched
               /\ out.mapInfos = layer)

(* C13: an aggregation call without refresh that finds an entry younger
   than 24 hours returns that entry's payload and makes no upstream request;
   a call with refresh, or one that finds no entry or an entry of 24 hours
   or more, fetches the layer again and, when that succeeds, asks for every
   member map, returns the newly combined payload and overwrites the entry
   with it and the current time. *)
C13_CacheWindow ==
    out.op = "mosaicAnnotation" =>
        LET within == out.before.some /\ out.at - out.before.val.created < 24
        IN  /\ (within /\ ~out.refresh) =>
                  /\ out.upstream = <<>>
                  /\ out.memberRequests = <<>>
                  /\ out.payload = out.before.val.payload
                  /\ mosaicCache = out.before
            /\ (out.refresh \/ ~within) =>
                  /\ out.upstream = <<"layer">>
                  /\ out.failed = "none" =>
                        /\ out.memberRequests = layer
                        /\ out.payload.maps =
                              {id \in {layer[k] : k \in DOMAIN layer} :
                                  /\ members[id].map = "ok"
                                  /\ members[id].gcps = "ok"
                                  /\ members[id].mask # "rejected"}
                        /\ mosaicCache = Some([payload |-> out.payload,
                                               created |-> out.at])

\* an entry of 24 hours is found by a call without refresh, which fans out
\* again and returns a payload that differs from the entry's
C13_Witness ==
    /\ out.op = "mosaicAnnotation"
    /\ ~out.refresh
    /\ out.before.some
    /\ out.at - out.before.val.created = 24
    /\ out.failed = "none"
    /\ out.memberRequests # <<>>
    /\ out.payload # out.before.val.payload

(* C15: an image request whose quality/format segment has no dot, or whose
   first dot is followed by nothing or by another dot, is answered 400
   without processImageRequest being called and without any upstream
   request, on the worker's routes and on the Node server's. *)
C15_NoFormatIs400 ==
    out.op = "image" =>
        LET qf == out.qualityFormat
            dots == {i \in DOMAIN qf : qf[i] = "."}
            lacksFormat ==
                \/ dots = {}
                \/ \E k \in dots :
                       /\ \A j \in dots : k <= j
                       /\ (k = Len(qf) \/ qf[k + 1] = ".")
        IN  lacksFormat =>
                /\ out.code = 400
                /\ out.calls = {}
                /\ out.upstream = <<>>
                /\ ~out.issued

\* the Node server answers 400 to default. (a dot and nothing after it)
C15_Witness ==
    /\ out.op = "image"
    /\ out.server = "node"
    /\ out.qualityFormat = <<"default", ".">>
    /\ out.code = 400
    /\ out.upstream = <<>>

\* the handlers whose status the worker or the Node server decides
HandlerOps ==
    {"info", "manifest", "annotation", "iiifMask", "maskProxy",
     "mosaicManifest", "image"}

\* the body is the not-found message naming the identifier that is unknown
NamesUnknownId(o) ==
    /\ "id" \in DOMAIN o.body
    /\ o.body.text = "not found"
    /\ IF o.op = "mosaicManifest"
       THEN \/ o.body.what = "Layer" /\ o.body.id = LayerIdent
            \/ o.body.what = "Map" /\ members[o.body.id].map = "notfound"
       ELSE o.body.what = "Map" /\ o.body.id = MapIdent

NoRepeat(requests) ==
    \A i, j \in DOMAIN requests : requests[i] = requests[j] => i = j

(* C16: in every handler a request that meets an unknown map or layer id
   and no other failure is answered 404 with a message naming that id; one
   that meets only other upstream failures is answered 500; and no handler
   asks upstream twice for the same resource. *)
C16_ErrorKindsToStatuses ==
    out.op \in HandlerOps =>
        /\ out.failures = {"notfound"} =>
              out.code = 404 /\ NamesUnknownId(out)
        /\ out.failures = {"error"} => out.code = 500
        /\ NoRepeat(out.upstream)
        /\ out.op = "mosaicManifest" => NoRepeat(out.memberRequests)

(* C17: when its three fetches succeed, the annotation endpoint answers 404
   if the map has no GCP, whatever the mask; with at least one GCP it
   answers 200 and the resource mask is the Source mask with every y
   replaced by H - y if that mask has 3 points or more, and the perimeter
   (0,0),(W,0),(W,H),(0,H) otherwise. *)
C17_AnnotationOrNotFound ==
    (out.op = "annotation" /\ out.failures = {}) =>
        LET noGcps == out.gr = "notfound" \/ Len(srcGcps) = 0
            W == mapRec.width
            H == mapRec.height
            m == out.maskCoords
        IN  /\ noGcps => out.code = 404
            /\ ~noGcps =>
                  /\ out.code = 200
                  /\ Len(out.gcps) >= 1
                  /\ out.resourceMask =
                        IF m.some /\ Len(m.val) >= 3
                        THEN [i \in 1..Len(m.val) |->
                                 <<m.val[i][1], H - m.val[i][2]>>]
                        ELSE <<<<0, 0>>, <<W, 0>>, <<W, H>>, <<0, H>>>>

\* a map with a GCP and a Source mask of two points gets the perimeter
C17_Witness ==
    /\ out.op = "annotation"
    /\ out.code = 200
    /\ out.maskCoords.some
    /\ Len(out.maskCoords.val) = 2
    /\ out.resourceMask = PerimeterMask(mapRec.width, mapRec.height)

(* C18: when its fetches succeed, iiif/mask.json answers 404 for a null
   mask and for a mask of fewer than 3 points; otherwise it answers 200
   with as many points as the Source mask, the i-th being (x, H - y) of the
   i-th Source point. *)
C18_IiifMaskTopDown ==
    (out.op = "iiifMask" /\ out.failures = {}) =>
        LET m == out.maskCoords
            H == mapRec.height
        IN  IF ~m.some \/ Len(m.val) < 3
            THEN out.code = 404
            ELSE /\ out.code = 200
                 /\ Len(out.coords) = Len(m.val)
                 /\ \A i \in 1..Len(m.val) :
                       out.coords[i] = <<m.val[i][1], H - m.val[i][2]>>

\* a mask of three points is returned with a point whose y changed
C18_Witness ==
    /\ out.op = "iiifMask"
    /\ out.code = 200
    /\ Len(out.coords) = 3
    /\ \E i \in 1..3 : out.coords[i] # out.maskCoords.val[i]

(* C19: on the list page and on both editor pages a 404 for the map's GCPs
   gives the empty GCP list and a 404 for its mask (on the editor pages,
   any mask response that is not ok) gives null, and the status is then
   computed; the request ends in the error state only when the GCP request
   or the annotation request failed otherwise than by a 404, never because
   of the mask. *)
C19_AbsenceIsNotFailure ==
    /\ out.op = "status" =>
          /\ out.compared <=>
                (out.fetched.gcps # "error" /\ out.fetched.am # "error")
          /\ out.compared =>
                /\ out.fetched.gcps = "notfound" =>
                      out.given.mapwarperGcps = <<>>
                /\ out.fetched.mask = "notfound" =>
                      out.given.maskCoords = Null
    /\ out.op \in {"editorV1", "editorV2"} =>
          /\ out.fetched.gcps # "error"
          /\ out.fetched.gcps = "notfound" => out.given.mwGcps = <<>>
          /\ ~out.fetched.maskOk => out.maskCoords = Null
    /\ out.op = "editorError" =>
          (out.fetched.gcps = "error" \/ out.fetched.am = "error")

\* the list page computes a status for a map whose GCPs and mask both
\* answered 404 while the Target holds an annotation
C19_Witness ==
    /\ out.op = "status"
    /\ out.fetched = [gcps |-> "notfound", mask |-> "notfound", am |-> "ok"]
    /\ out.compared
    /\ ~out.threw
    /\ out.given.mapwarperGcps = <<>>
    /\ out.given.maskCoords = Null
    /\ Len(out.given.allmapsGcps) > 0

(* C20: !100,50 on a region 200x100 gives 100x50 and on a region 100x200
   gives 25x50; for every box and region the width is the box's width when
   regionWidth/regionHeight is strictly greater than maxW/maxH and the
   height is the box's height otherwise, and the result is never wider or
   higher than the box. *)
C20_BestFit ==
    out.op = "parseSize" =>
        LET maxW == out.size.w
            maxH == out.size.h
            rw == out.regionWidth
            rh == out.regionHeight
            res == out.result
        IN  /\ (maxW = 100 /\ maxH = 50 /\ rw = 200 /\ rh = 100) =>
                  res = [width |-> 100, height |-> 50]
            /\ (maxW = 100 /\ maxH = 50 /\ rw = 100 /\ rh = 200) =>
                  res = [width |-> 25, height |-> 50]
            /\ rw * maxH > maxW * rh => res.width = maxW
            /\ rw * maxH <= maxW * rh => res.height = maxH
            /\ res.width <= maxW
            /\ res.height <= maxH

\* !100,50 applied to the region 100x200, where the height binds
C20_Witness ==
    /\ out.op = "parseSize"
    /\ out.size.w = 100 /\ out.size.h = 50
    /\ out.regionWidth = 100 /\ out.regionHeight = 200
    /\ out.result = [width |-> 25, height |-> 50]

\* the integer nearest to a / 100, halves going up
NearestHundredth(a) ==
    CHOOSE n \in 0..a : 200 * n - 100 <= 2 * a /\ 2 * a < 200 * n + 100

(* C21: for an image request on pct:x,y,w,h the region is the four
   percentages of W and H each rounded to the nearest integer (pct:0,0,50,50
   on 200x100 is 0,0,100,50), the BBOX is built from these rounded values
   and the size is computed from the rounded width and height. *)
C21_PctRoundedFirst ==
    (out.op = "image" /\ out.issued /\ out.asked.region.kind = "pct") =>
        LET p == out.asked.region
            W == mapRec.width
            H == mapRec.height
            x == NearestHundredth(W * p.x)
            y == NearestHundredth(H * p.y)
            w == NearestHundredth(W * p.w)
            h == NearestHundredth(H * p.h)
        IN  /\ out.region = [x |-> x, y |-> y, width |-> w, height |-> h]
            /\ (W = 200 /\ H = 100 /\ p.x = 0 /\ p.y = 0
                    /\ p.w = 50 /\ p.h = 50) =>
                  out.region = [x |-> 0, y |-> 0, width |-> 100, height |-> 50]
            /\ out.wms.bbox = <<x, H - y - h, x + w, H - y>>
            /\ out.asked.size.kind = "max" =>
                  (out.wms.width = w /\ out.wms.height = h)

\* pct:0,50,100,50 on an image of odd height, where 50% is rounded up
C21_Witness ==
    /\ out.op = "image"
    /\ out.issued
    /\ out.asked.region = [kind |-> "pct", x |-> 0, y |-> 50, w |-> 100, h |-> 50]
    /\ mapRec.height = MaxCoord
    /\ 2 * out.region.y > mapRec.height
    /\ out.asked.size.kind = "max"

\* the integer nearest to a / b, halves going up
NearestQuotient(a, b) ==
    CHOOSE n \in 0..a : 2 * b * n - b <= 2 * a /\ 2 * a < 2 * b * n + b

\* the number a part of the size text stands for when it is a numeral
\* above zero, and 0 when it is empty, not a number or zero
UsableNumber(t) ==
    CASE t = "50" -> 50
      [] t = "100" -> 100
      [] OTHER -> 0

(* C22: for a size of the form w,h without prefix: when neither part is a
   number above zero (empty, a lone comma, words, zeros) the result is the
   region's own width and height; w, gives w and round(w * regionHeight /
   regionWidth); ,h gives round(h * regionWidth / regionHeight) and h; max
   and full give the region's own size. *)
C22_SizeFallbackAndDerived ==
    (out.op = "parseSizeText"
        /\ (out.size = <<>> \/ out.size[1] \notin {"!", "pct:"})) =>
        LET s == out.size
            rw == out.regionWidth
            rh == out.regionHeight
            first == IF Len(s) >= 1 /\ s[1] # "," THEN s[1] ELSE ""
            second == IF \E k \in 1..(Len(s) - 1) : s[k] = ","
                      THEN s[(CHOOSE k \in 1..(Len(s) - 1) : s[k] = ",") + 1]
                      ELSE ""
            w == UsableNumber(first)
            h == UsableNumber(second)
        IN  /\ s \in {<<"max">>, <<"full">>} =>
                  out.result = [width |-> rw, height |-> rh]
            /\ (w = 0 /\ h = 0) =>
                  out.result = [width |-> rw, height |-> rh]
            /\ (w > 0 /\ h = 0) =>
                  out.result = [width |-> w,
                                height |-> NearestQuotient(w * rh, rw)]
            /\ (w = 0 /\ h > 0) =>
                  out.result = [width |-> NearestQuotient(h * rw, rh),
                                height |-> h]

\* 100, on the region 200x3: the height is round(1.5) = 2
C22_Witness ==
    /\ out.op = "parseSizeText"
    /\ out.size = <<"100", ",">>
    /\ out.regionWidth = 200
    /\ out.regionHeight = 3
    /\ out.result = [width |-> 100, height |-> 2]

(* C23: for every size text and region, parseSize of the text with a
   leading ^ gives the same width and height as parseSize of the text. *)
C23_CaretChangesNothing ==
    out.op = "parseSizeText" => out.caretResult = out.result

\* ^100,50 and 100,50 both give 100x50 on a region of another shape
C23_Witness ==
    /\ out.op = "parseSizeText"
    /\ out.size = <<"100", ",", "50">>
    /\ out.regionWidth = 3
    /\ out.regionHeight = 200
    /\ out.caretResult = [width |-> 100, height |-> 50]

(* C24: getMimeType gives image/jpeg for jpg and jpeg, image/png for png,
   image/gif for gif, image/webp for webp and image/tiff for tif and tiff,
   whatever the case of the letters, and image/png for every other
   extension; an image request sends the same type as FORMAT and as
   Content-Type. *)
C24_FormatResolutionTotal ==
    /\ out.op = "getMimeType" =>
          out.result =
              CASE out.format \in {"jpg", "jpeg", "JPG", "Jpeg"} -> "image/jpeg"
                [] out.format \in {"png", "PNG"} -> "image/png"
                [] out.format = "gif" -> "image/gif"
                [] out.format = "webp" -> "image/webp"
                [] out.format \in {"tif", "tiff", "TIFF"} -> "image/tiff"
                [] OTHER -> "image/png"
    /\ (out.op = "image" /\ out.issued) => out.wms.format = out.contentType

(* C25: when both masks exist with the same number of points, the mask
   comparison reports a match exactly when the Source mask, converted to the
   Target's top-down system where it is still bottom-up, and the Target
   mask, both sorted by (x, y), agree pair by pair within 1 pixel; the
   starting point of a polygon does not matter. *)
C25_MasksSortedPairedConverted ==
    LET H == mapRec.height
        Converted(M) == [i \in 1..Len(M) |-> <<M[i][1], H - M[i][2]>>]
        Before(p, q) == p[1] < q[1] \/ (p[1] = q[1] /\ p[2] <= q[2])
        Sorted(M) ==
            CHOOSE t \in [1..Len(M) -> {M[i] : i \in 1..Len(M)}] :
                /\ \A i \in 1..Len(M) : \A j \in i..Len(M) : Before(t[i], t[j])
                /\ \A i \in 1..Len(M) :
                       Cardinality({k \in 1..Len(M) : t[k] = M[i]})
                           = Cardinality({k \in 1..Len(M) : M[k] = M[i]})
        Near(a, b) ==
            \A i \in 1..Len(a) :
                /\ a[i][1] - b[i][1] \in -1..1
                /\ a[i][2] - b[i][2] \in -1..1
        Perimeter == <<<<0, 0>>, <<mapRec.width, 0>>,
                       <<mapRec.width, H>>, <<0, H>>>>
        Effective(m) == IF m.some THEN m.val ELSE Perimeter
        MaskKinds == {"maskOnly", "maskCount", "maskPoint"}
    IN  /\ (/\ out.op = "status" /\ out.compared /\ ~out.threw
             /\ "compareMasks" \in out.status.calls
             /\ out.given.maskCoords.some /\ out.given.allmapsMask.some
             /\ Len(out.given.maskCoords.val) = Len(out.given.allmapsMask.val)) =>
               LET reported ==
                       \/ out.status.type = "match"
                       \/ /\ out.status.type = "mismatch"
                          /\ \A i \in 1..Len(out.status.differences) :
                                 out.status.differences[i].kind \notin MaskKinds
               IN  reported <=> Near(Sorted(Converted(out.given.maskCoords.val)),
                                     Sorted(out.given.allmapsMask.val))
        /\ (/\ out.op = "editorV1" /\ out.allmapsMask.some
             /\ Len(Effective(out.maskCoords)) = Len(out.allmapsMask.val)) =>
               (out.masksMatch <=>
                    Near(Sorted(Converted(Effective(out.maskCoords))),
                         Sorted(out.allmapsMask.val)))
        /\ (/\ out.op = "editorV2" /\ out.allmapsMask.some
             /\ Len(Effective(out.maskCoords)) = Len(out.allmapsMask.val)) =>
               (out.masksMatch <=>
                    Near(Sorted(Effective(out.maskCoords)),
                         Sorted(out.allmapsMask.val)))

(* C26: the mask parseGmlMask returns for a coordinate list of more than one
   point is open, its last point differs from its first (a result of one
   point is left aside), and a list that is already open is returned as it
   is. *)
C26_ParsedMaskIsOpen ==
    (/\ out.op \in {"annotation", "iiifMask"} /\ out.code = 200
     /\ gml.some /\ out.maskCoords.some) =>
        LET g == gml.val
            r == out.maskCoords.val
        IN  /\ (Len(g) > 1 /\ Len(r) > 1) => r[1] # r[Len(r)]
            /\ (Len(g) = 1 \/ g[1] # g[Len(g)]) => r = g

(* C27: every GCP parseAllmapsGcps returns, on the list page and on the
   editor pages, has all four of x, y, lon and lat. *)
C27_ParsedGcpsComplete ==
    LET Complete(gcps) ==
            \A i \in 1..Len(gcps) :
                {"x", "y", "lon", "lat"} \subseteq DOMAIN gcps[i]
    IN  /\ (out.op = "status" /\ out.compared) =>
               Complete(out.given.allmapsGcps)
        /\ out.op \in {"editorV1", "editorV2"} =>
               Complete(out.given.allmapsGcps)

-----------------------------------------------------------------------------
(* Specification of the maps grid of the list page *)

InitList ==
    /\ mapRec = CmpMapRec
    /\ gml = Null
    /\ srcGcps = <<>>
    /\ amFeatures = <<>>
    /\ amMask = Null
    /\ mapCache = Null
    /\ out = Idle
    /\ MosaicQuiet

NextList ==
    \/ GoToPage
    \/ PerformSearch
    \/ RectifiedOnlyChange
    \/ LoadMapsResolves
    \/ LoadMapsRejects

SpecList == InitList /\ [][NextList]_vars

(* C28: once every loadMaps call has had its response and none failed,
   state.mapsData and the grid hold the response to the request issued last,
   the one for the page, search query and filter of the current state. *)
C28_LatestRequestWins ==
    (/\ list.issued > 0 /\ list.inFlight = {}
     /\ \A k \in 1..Len(list.arrived) : list.arrived[k].ok) =>
        LET current == [page |-> list.state.mapsPage,
                        query |-> list.state.mapsSearchQuery,
                        rectified |-> list.state.mapsRectifiedOnly]
        IN  /\ list.state.mapsData = [some |-> TRUE, val |-> current]
            /\ list.mapsGrid = [some |-> TRUE, val |-> current]

(* C29: a mosaic manifest that is answered has one canvas per member map id
   of the layer, in the layer's order and numbered from 1; when the record
   of a member map cannot be fetched the request fails, with 404 if that map
   is not found and 500 otherwise, and no manifest is returned. *)
C29_MosaicManifestAllOrNothing ==
    out.op = "mosaicManifest" =>
        LET missing == {id \in {layer[k] : k \in DOMAIN layer} :
                            members[id].map # "ok"}
        IN  /\ out.code = 200 =>
                   /\ missing = {}
                   /\ Len(out.items) = Len(layer)
                   /\ \A k \in 1..Len(layer) :
                          out.items[k] = [canvas |-> k, mapId |-> layer[k]]
            /\ out.code # 200 =>
                   /\ "items" \notin DOMAIN out
                   /\ out.body # [text |-> "manifest"]
            /\ "failedId" \in DOMAIN out =>
                   /\ out.failedId \in missing
                   /\ out.code = IF members[out.failedId].map = "notfound"
                                 THEN 404 ELSE 500

C29_Witness ==
    /\ out.op = "mosaicManifest"
    /\ out.code = 404
    /\ "failedId" \in DOMAIN out
    /\ \E k \in DOMAIN layer : members[layer[k]].map = "ok"

(* C30: the editor shows "All synced" only when both sides have at least one
   GCP and the GCP comparison matched, never when the Source has a mask and
   the mask comparison failed; with no Source GCPs it shows "No MW GCPs to
   sync" whatever the other inputs are. *)
C30_AllSyncedOnlyWhenMatched ==
    out.op \in {"editorV1", "editorV2"} =>
        /\ out.status = "All synced" =>
               /\ Len(out.given.mwGcps) >= 1
               /\ Len(out.given.allmapsGcps) >= 1
               /\ out.gcpsMatch
               /\ ~(out.hasMwMask /\ ~out.masksMatch)
        /\ Len(out.given.mwGcps) = 0 => out.status = "No MW GCPs to sync"

C30_Witness ==
    /\ out.op \in {"editorV1", "editorV2"}
    /\ Len(out.given.mwGcps) >= 1
    /\ out.gcpsMatch
    /\ out.hasMwMask /\ ~out.masksMatch
    /\ out.status = "Clip needs update"

====
